---------------------------- MODULE Spec2Model ----------------------------
(***************************************************************************)
(* State-machine model of the calyx core:                                  *)
(*   - FileDescriptor            (include/file_descriptor.hpp)             *)
(*   - run_uring_io, run_io_test (src/io/disk_benchmark.cpp)               *)
(*   - ShellPipe                 (shell_pipe.cpp, timeout/stop version)    *)
(*   - TgzExtractor::extract     (tgz_extractor.cpp)                       *)
(*   - sanitize_path alone       (tgz_extractor.cpp)                       *)
(*   - validate_checksum alone   (tgz_extractor.cpp)                       *)
(*   - SpeedTest::run            (src/net/http_client.cpp)                 *)
(* Each subsystem has its own variables and its own specification; the     *)
(* variables of the other subsystems stay at their idle values.            *)
(***************************************************************************)
EXTENDS Integers, Sequences, FiniteSets, TLC

(***************************************************************************)
(* Bounds of the model.                                                    *)
(***************************************************************************)
\* number of FileDescriptor objects that can be alive at once
NumWrappers == 2
\* size of the kernel descriptor table (descriptor numbers 0..NumFds-1)
NumFds == 3
\* benchmark size in MiB (run_io_test's size_mb) ranges over 1..MaxSizeMb
MaxSizeMb == 3
\* the queue depth ranges over 1..MaxQD (the program fixes it in Config)
MaxQD == 2
\* the child writes chunks of 1..MaxChunk bytes into the pipe
MaxChunk == 2
\* Config::PIPE_MAX_OUTPUT_BYTES, scaled down to a few bytes
PIPE_MAX_OUTPUT_BYTES == 2
\* Config::TGZ_MAX_FILES, TGZ_MAX_FILE_SIZE and TGZ_MAX_TOTAL_SIZE, scaled
\* down: a few entries, sizes of a few payload chunks
TGZ_MAX_FILES == 2
TGZ_MAX_FILE_SIZE == 2
TGZ_MAX_TOTAL_SIZE == 3
\* Config::TAR_BLOCK_SIZE (512 in the program), scaled down
TAR_BLOCK_SIZE == 2
\* longest path_str handed to sanitize_path on its own
MaxPathStr == 3
\* Config::TAR_CHECKSUM_LENGTH (8 in the program), scaled down
TAR_CHECKSUM_LENGTH == 4
\* number of header bytes outside the checksum field (504 in the program)
RestLen == 2
\* SERVERS.size() (7 in the program), scaled down
NumServers == 3
\* most lines in the output of one speedtest run
MaxLines == 2

(***************************************************************************)
(* Constants of the program (Config).                                      *)
(***************************************************************************)
TGZ_MAX_PATH_DEPTH == 20
TGZ_MAX_PATH_LENGTH == 255
TGZ_MAX_TOTAL_PATH_LENGTH == 4096

VARIABLES
    \* ---- FileDescriptor ----
    w_live,        \* w_live[w]: wrapper object w is constructed and not yet destroyed
    w_fd,          \* w_fd[w]: the member fd_ of wrapper w (-1: holds nothing)
    kOpen,         \* descriptor numbers open in the kernel's table
    fdRaw,         \* descriptors the program opened and holds as plain ints
    fdReleased,    \* descriptors handed back to the program by release()
    closeCnt,      \* closeCnt[f]: ::close(f) calls made by wrappers since f was opened
    badClose,      \* a ::close hit a descriptor number that was not open
    \* ---- process-wide interrupt flag ----
    g_interrupted,
    \* ---- DiskBenchmark::run_io_test / run_uring_io ----
    b_pc,                 \* position in run_io_test / run_uring_io
    b_result,             \* what run_io_test returned ("none" while running)
    b_prev,               \* how the previous call of run_io_test ended:
                          \* "ok" / "error" ("none": this is the first call)
    benchFile,            \* the entry <TEST_FILENAME>.<pid>: "absent" or "file"
    b_open,               \* kernel objects the call holds open: "wfd", "rfd", "ring"
    b_mode,               \* success_mode / read_success_mode, from open_benchmark_file
                          \* to the step after print_storage_warning (0 otherwise)
    b_calls,              \* the ::open calls of that open_benchmark_file, in order
    b_steps,              \* the steps run_io_test has taken in this call, in order
    size_mb,              \* argument size_mb
    io_queue_depth,       \* Config::IO_WRITE_QUEUE_DEPTH = IO_READ_QUEUE_DEPTH
    is_write,             \* run_uring_io: phase
    u_result,             \* run_uring_io: returned value ("none" while running)
    submitted, completed, interrupt_requested, free_read_indices,
    sq,                   \* prepared SQEs not yet handed to the kernel
    inflight,             \* requests the kernel is working on
    cq,                   \* completion queue: CQEs not yet consumed
    u_sub_log,            \* history: the requests of the phase, as prepared
    u_done_log,           \* history: the CQEs the phase accepted, as consumed
    u_progress,           \* history: the calls of progress_cb of the phase, in order
    stop_requested,       \* stop.stop_requested()
    expired,              \* high_resolution_clock::now() > deadline
    \* ---- ShellPipe ----
    p_pc,                 \* position in read_all / ~ShellPipe
    pid_,                 \* member pid_
    read_fd_open,         \* member read_fd_ holds the open read end
    write_fd_open,        \* the constructor's local write_fd holds the open write end
    child,                \* the forked process: "running", "zombie", "reaped"
                          \* ("unborn": fork has not been called)
    c_status,             \* wait status of the child once it has terminated
    c_pending,            \* signals sent to the child and not yet acted upon
    c_ignores_term,       \* the child ignores SIGTERM
    c_stdout_open,        \* the child still holds the write end
    heir,                 \* a descendant of the child holds the write end
    pipe_bytes,           \* bytes in the pipe, not yet read
    total_read,           \* read_all: total_read (= bytes appended to output)
    truncated,            \* read_all: the truncation notice was appended to output
    p_expired,            \* steady_clock::now() >= deadline
    p_stop,               \* stop.stop_requested()
    p_stop_possible,      \* the stop token has a stop state (not the empty token)
    raise_on_error,       \* argument raise_on_error
    p_result,             \* how read_all ended ("none": not yet)
    p_sent,               \* signals the parent sent to pid_, in order
    \* ---- TgzExtractor::extract ----
    t_pc,                 \* position in extract: "open", "loop", "done"
    t_result,             \* what extract returned ("none" while running)
    t_fs,                 \* the filesystem
    t_created,            \* every path extract has created (mkdir, open O_CREAT)
    total_extracted_size,
    file_count,
    t_hdr,                \* the header block at which extract stopped with an error
    t_entry_created,      \* paths created while processing that entry
    t_entry_written,      \* payload bytes written while processing that entry
    t_link_accepted,      \* a header with typeflag '1' or '2' got past line 355
    t_pos,                \* offset reached in the decompressed stream
    t_opened,             \* number of files created by ::open so far
    t_file,               \* the SecureFileHandle of the entry at which extract stopped
    t_fds,                \* descriptors extract holds open: "gz", "fd_"
    \* ---- sanitize_path applied twice ----
    s_pc,                 \* "start", "once", "twice"
    s_fs,                 \* the filesystem sanitize_path looks at
    s_base,               \* argument base_dir
    s_path,               \* argument path_str of the first call
    s_first,              \* result of the first call
    s_second,             \* result of the second call
    \* ---- validate_checksum ----
    k_pc,                 \* "start", "done"
    k_field,              \* the checksum field of the header, as characters
    k_rest,               \* the values of the other bytes of the header
    k_valid,              \* what validate_checksum returned
    \* ---- SpeedTest::run ----
    r_pc,                 \* "cert", "loop", "done"
    r_node,               \* index in SERVERS of the node the loop is at
    r_entries,            \* result.entries
    r_rate_limited,       \* result.rate_limited
    r_spawned             \* indices of the nodes a ShellPipe was made for, in order

fdVars == <<w_live, w_fd, kOpen, fdRaw, fdReleased, closeCnt, badClose>>
uringVars == <<is_write, u_result, submitted, completed, interrupt_requested,
               free_read_indices, sq, inflight, cq, u_sub_log, u_done_log,
               u_progress>>
benchVars == <<b_pc, b_result, b_prev, benchFile, b_open, b_mode, b_calls, b_steps, size_mb,
               io_queue_depth, uringVars, stop_requested, expired>>

childVars == <<child, c_status, c_pending, c_ignores_term, c_stdout_open, heir,
               pipe_bytes>>
pipeVars == <<p_pc, pid_, read_fd_open, write_fd_open, childVars, total_read, truncated,
              p_expired, p_stop, p_stop_possible, raise_on_error, p_result, p_sent>>

tgzVars == <<t_pc, t_result, t_fs, t_created, total_extracted_size, file_count,
             t_hdr, t_entry_created, t_entry_written, t_link_accepted,
             t_pos, t_opened, t_file, t_fds>>

sanVars == <<s_pc, s_fs, s_base, s_path, s_first, s_second>>

sumVars == <<k_pc, k_field, k_rest, k_valid>>

speedVars == <<r_pc, r_node, r_entries, r_rate_limited, r_spawned>>

vars == <<fdVars, g_interrupted, benchVars, pipeVars, tgzVars, sanVars, sumVars,
         speedVars>>

Wrappers == 1..NumWrappers
Fds == 0..(NumFds - 1)

(***************************************************************************)
(* FileDescriptor                                                          *)
(***************************************************************************)
InitFd ==
    /\ w_live = [w \in Wrappers |-> FALSE]
    /\ w_fd = [w \in Wrappers |-> -1]
    /\ kOpen = {}
    /\ fdRaw = {}
    /\ fdReleased = {}
    /\ closeCnt = [f \in Fds |-> 0]
    /\ badClose = FALSE

\* the kernel hands out the lowest free descriptor number
LowestFree == CHOOSE n \in Fds \ kOpen : \A m \in Fds \ kOpen : n <= m

\* ::close(f) for every f in fs, as issued by a wrapper
SysClose(fs) ==
    /\ kOpen' = kOpen \ fs
    /\ closeCnt' = [f \in Fds |-> IF f \in fs THEN closeCnt[f] + 1 ELSE closeCnt[f]]
    /\ badClose' = (badClose \/ \E f \in fs : f \notin kOpen)

\* what reset() closes: the current fd_ when it is >= 0
ResetCloses(cur) == IF cur >= 0 THEN {cur} ELSE {}

\* value left in other.fd_ by std::exchange(other.fd_, -1)
ExchangedKeepsSource(old) == old
Exchanged(old) == -1

\* the program opens a descriptor (open, pipe, socket ...) and keeps it as an int
FdOpen ==
    /\ Fds \ kOpen # {}
    /\ kOpen' = kOpen \cup {LowestFree}
    /\ fdRaw' = fdRaw \cup {LowestFree}
    /\ closeCnt' = [closeCnt EXCEPT ![LowestFree] = 0]
    /\ UNCHANGED <<w_live, w_fd, fdReleased, badClose>>

\* FileDescriptor() and explicit FileDescriptor(int fd): fd < -1 throws, no object
FdConstruct(w, fd) ==
    /\ ~w_live[w]
    /\ fd \in fdRaw \cup {-1, -2}
    /\ IF fd < 0 /\ fd # -1
         THEN UNCHANGED <<w_live, w_fd, fdRaw>>
         ELSE /\ w_live' = [w_live EXCEPT ![w] = TRUE]
              /\ w_fd' = [w_fd EXCEPT ![w] = fd]
              /\ fdRaw' = fdRaw \ {fd}
    /\ UNCHANGED <<kOpen, fdReleased, closeCnt, badClose>>

\* FileDescriptor(FileDescriptor&& other)
FdMoveConstruct(w, other) ==
    /\ ~w_live[w] /\ w_live[other]
    /\ w_live' = [w_live EXCEPT ![w] = TRUE]
    /\ w_fd' = [w_fd EXCEPT ![w] = w_fd[other], ![other] = Exchanged(w_fd[other])]
    /\ UNCHANGED <<kOpen, fdRaw, fdReleased, closeCnt, badClose>>

\* operator=(FileDescriptor&& other)
FdMoveAssign(w, other) ==
    /\ w_live[w] /\ w_live[other]
    /\ IF w # other
         THEN /\ SysClose(ResetCloses(w_fd[w]))
              /\ w_fd' = [w_fd EXCEPT ![w] = w_fd[other],
                                      ![other] = Exchanged(w_fd[other])]
         ELSE UNCHANGED <<w_fd, kOpen, closeCnt, badClose>>
    /\ UNCHANGED <<w_live, fdRaw, fdReleased>>

\* reset(int new_fd = -1)
FdReset(w, new_fd) ==
    /\ w_live[w]
    /\ new_fd \in fdRaw \cup {-1}
    /\ SysClose(ResetCloses(w_fd[w]))
    /\ w_fd' = [w_fd EXCEPT ![w] = new_fd]
    /\ fdRaw' = fdRaw \ {new_fd}
    /\ UNCHANGED <<w_live, fdReleased>>

\* release()
FdRelease(w) ==
    /\ w_live[w]
    /\ fdReleased' = fdReleased \cup (IF w_fd[w] >= 0 THEN {w_fd[w]} ELSE {})
    /\ w_fd' = [w_fd EXCEPT ![w] = -1]
    /\ UNCHANGED <<w_live, kOpen, fdRaw, closeCnt, badClose>>

\* duplicate(): dup(fd_) into a new wrapper; fails on fd_ < 0 or when dup fails
FdDuplicate(w, nw) ==
    /\ w_live[w] /\ ~w_live[nw]
    /\ IF w_fd[w] < 0 \/ Fds \ kOpen = {}
         THEN UNCHANGED <<w_live, w_fd, kOpen, closeCnt>>
         ELSE /\ kOpen' = kOpen \cup {LowestFree}
              /\ closeCnt' = [closeCnt EXCEPT ![LowestFree] = 0]
              /\ w_live' = [w_live EXCEPT ![nw] = TRUE]
              /\ w_fd' = [w_fd EXCEPT ![nw] = LowestFree]
    /\ UNCHANGED <<fdRaw, fdReleased, badClose>>

\* swap(FileDescriptor& other)
FdSwap(w, other) ==
    /\ w_live[w] /\ w_live[other]
    /\ w_fd' = [w_fd EXCEPT ![w] = w_fd[other], ![other] = w_fd[w]]
    /\ UNCHANGED <<w_live, kOpen, fdRaw, fdReleased, closeCnt, badClose>>

\* ~FileDescriptor(): reset()
FdDestroy(w) ==
    /\ w_live[w]
    /\ SysClose(ResetCloses(w_fd[w]))
    /\ w_live' = [w_live EXCEPT ![w] = FALSE]
    /\ w_fd' = [w_fd EXCEPT ![w] = -1]
    /\ UNCHANGED <<fdRaw, fdReleased>>

\* the program closes, by hand, a descriptor it got back from release()
FdRawClose(f) ==
    /\ f \in fdReleased /\ f \in kOpen
    /\ kOpen' = kOpen \ {f}
    /\ fdReleased' = fdReleased \ {f}
    /\ UNCHANGED <<w_live, w_fd, fdRaw, closeCnt, badClose>>

(***************************************************************************)
(* DiskBenchmark::run_io_test and run_uring_io                             *)
(* Sizes are counted in MiB: IO_WRITE_BLOCK_SIZE = IO_READ_BLOCK_SIZE =    *)
(* 1 MiB, total_bytes = size_mb MiB.                                       *)
(***************************************************************************)
\* Config::IO_WRITE_BLOCK_SIZE / IO_READ_BLOCK_SIZE, in MiB
IO_BLOCK_SIZE == 1

total_bytes == size_mb
\* total_write_blocks = total_read_blocks = ceil(total_bytes / block_size)
total_blocks == (total_bytes + IO_BLOCK_SIZE - 1) \div IO_BLOCK_SIZE
\* queue_depth_write / queue_depth_read = std::max(1, Config::IO_*_QUEUE_DEPTH)
queue_depth_write == IF io_queue_depth > 1 THEN io_queue_depth ELSE 1
queue_depth_read == IF io_queue_depth > 1 THEN io_queue_depth ELSE 1
\* the queue_depth argument of run_uring_io
queue_depth == IF is_write THEN queue_depth_write ELSE queue_depth_read

Min(a, b) == IF a < b THEN a ELSE b

RECURSIVE IotaSeq(_)
\* free_read_indices after the initial push_back loop: <<0, 1, ..., n-1>>
IotaSeq(n) == IF n = 0 THEN <<>> ELSE Append(IotaSeq(n - 1), n - 1)

\* requests submitted and not yet consumed by the completion loop
InFlightCount == Len(sq) + Cardinality(inflight) + Len(cq)

UringIdle ==
    /\ is_write = TRUE
    /\ u_result = "none"
    /\ submitted = 0
    /\ completed = 0
    /\ interrupt_requested = FALSE
    /\ free_read_indices = <<>>
    /\ sq = <<>>
    /\ inflight = {}
    /\ cq = <<>>
    /\ u_sub_log = <<>>
    /\ u_done_log = <<>>
    /\ u_progress = <<>>

InitBench ==
    /\ b_pc = "space"
    /\ b_result = "none"
    /\ b_prev = "none"
    /\ benchFile \in {"absent", "file"}
    /\ b_open = {}
    /\ b_mode = 0
    /\ b_calls = <<>>
    /\ b_steps = <<>>
    /\ size_mb \in 1..MaxSizeMb
    /\ io_queue_depth \in 1..MaxQD
    /\ UringIdle
    /\ stop_requested = FALSE
    /\ expired = FALSE
    /\ g_interrupted = FALSE

\* a step of run_io_test that has been carried out, and whether it succeeded
Step(s, ok) == [step |-> s, ok |-> ok]
\* the transfer phase run_uring_io is called for
Phase == IF is_write THEN "write" ELSE "read"

\* progress_cb(completed, total_blocks, label); the callers of run_io_test
\* pass a callback (cb = TRUE below)
ProgressCall(comp, total, label) == [completed |-> comp, total |-> total, label |-> label]
\* lines 235-236: if (progress_cb && completed % 2 == 0), after ++completed
ReportsProgressEveryTime(cb, comp) == cb
ReportsProgress(cb, comp) == cb /\ comp % 2 = 0

\* line 446: ::fdatasync(fd.get()) == -1
SyncFailedIgnored(rc) == FALSE
SyncFailed(rc) == rc = -1

\* ~FileCleaner(): remove the file when it exists
FileCleanerKeeps(f) == f
FileCleanerDtor(f) == IF f # "absent" THEN "absent" ELSE f

\* a return of run_io_test: the FileDescriptor objects go out of scope, then
\* the FileCleaner declared first is destroyed last
BenchReturnWith(res, file) ==
    /\ b_pc' = "returned"
    /\ b_result' = res
    /\ b_open' = b_open \ {"wfd", "rfd"}
    /\ benchFile' = FileCleanerDtor(file)

BenchReturn(res) == BenchReturnWith(res, benchFile)

\* open_benchmark_file: the success mode, given the outcome of each ::open
\* attempt in order (DIRECT|DSYNC, DIRECT, DSYNC, buffered); 0 = failure
open_benchmark_file_any_errno(att) ==
    IF att[1] = "ok" THEN 1
    ELSE IF att[2] = "ok" THEN 2
    ELSE IF att[3] = "ok" THEN 3
    ELSE IF att[4] = "ok" THEN 4
    ELSE 0
open_benchmark_file(att) ==
    IF att[1] = "ok" THEN 1
    ELSE IF att[1] # "EINVAL" THEN 0
    ELSE IF att[2] = "ok" THEN 2
    ELSE IF att[2] # "EINVAL" THEN 0
    ELSE IF att[3] = "ok" THEN 3
    ELSE IF att[3] # "EINVAL" THEN 0
    ELSE IF att[4] = "ok" THEN 4
    ELSE 0

\* the flags added to base flags by the four attempts, in the order of the code
OpenFlags == <<"O_DIRECT|O_DSYNC", "O_DIRECT", "O_DSYNC", "none">>
OpenCall(i, att) == [flags |-> OpenFlags[i], res |-> att[i]]

\* open_benchmark_file: the ::open calls it makes, given the outcome each
\* attempt would have
open_calls(att) ==
    IF att[1] # "EINVAL" THEN <<OpenCall(1, att)>>
    ELSE IF att[2] # "EINVAL" THEN <<OpenCall(1, att), OpenCall(2, att)>>
    ELSE IF att[3] # "EINVAL" THEN <<OpenCall(1, att), OpenCall(2, att), OpenCall(3, att)>>
    ELSE <<OpenCall(1, att), OpenCall(2, att), OpenCall(3, att), OpenCall(4, att)>>

OpenOutcomes == [1..4 -> {"ok", "EINVAL", "EACCES"}]

\* what ::open can answer for the flags O_WRONLY|O_CREAT|O_TRUNC|O_EXCL
\* (entry present: EEXIST on every attempt)
CreateOutcomes(f) ==
    IF f = "absent" THEN OpenOutcomes ELSE {[i \in 1..4 |-> "EEXIST"]}
\* ... and for O_RDONLY (entry absent: ENOENT on every attempt)
ReadOpenOutcomes(f) ==
    IF f = "absent" THEN {[i \in 1..4 |-> "ENOENT"]} ELSE OpenOutcomes

\* run_io_test is called again (disk benchmark runs back to back)
BenchRestart ==
    /\ UNCHANGED <<u_sub_log, u_done_log>>
    /\ u_progress' = <<>>
    /\ b_pc = "returned"
    /\ b_prev' = (IF b_result = "ok" THEN "ok" ELSE "error")
    /\ b_pc' = "space"
    /\ b_result' = "none"
    /\ expired' = FALSE
    /\ is_write' = TRUE
    /\ b_calls' = <<>>
    /\ b_steps' = <<>>
    /\ UNCHANGED <<benchFile, b_open, b_mode, size_mb, io_queue_depth,
                   u_result, submitted, completed, interrupt_requested,
                   free_read_indices, sq, inflight, cq,
                   stop_requested, g_interrupted>>

\* lines 341-355: FileCleaner, free-space probe
BenchSpace ==
    /\ b_pc = "space"
    /\ \E avail \in BOOLEAN :
         /\ b_steps' = Append(b_steps, Step("space", avail))
         /\ IF avail
              THEN /\ b_pc' = "open_w"
                   /\ UNCHANGED <<b_result, b_open, benchFile>>
              ELSE BenchReturn("Insufficient free space for disk test")
    /\ UNCHANGED <<b_prev, b_mode, b_calls, size_mb, io_queue_depth, uringVars,
                   stop_requested, expired, g_interrupted>>

\* std::filesystem::remove(path, ec) on the benchmark file
FsRemove(f) == "absent"

\* lines 385-401: remove a stale file, open for writing with the mode fallback
BenchOpenWrite ==
    /\ b_pc = "open_w"
    /\ \E att \in CreateOutcomes(FsRemove(benchFile)) :
         LET mode == open_benchmark_file(att) IN
         /\ b_mode' = mode
         /\ b_calls' = open_calls(att)
         /\ b_steps' = Append(b_steps, Step("open_w", mode # 0))
         /\ IF mode = 0
              THEN BenchReturnWith("create failed", FsRemove(benchFile))
              ELSE /\ b_pc' = "prealloc"
                   /\ benchFile' = "file"
                   /\ b_open' = b_open \cup {"wfd"}
                   /\ UNCHANGED b_result
    /\ UNCHANGED <<b_prev, size_mb, io_queue_depth, uringVars,
                   stop_requested, expired, g_interrupted>>

\* lines 403-410: posix_fallocate; EINVAL and ENOTSUP are ignored
BenchPrealloc ==
    /\ b_pc = "prealloc"
    /\ b_mode' = 0
    /\ b_calls' = <<>>
    /\ \E rc \in {"0", "EINVAL", "ENOTSUP", "ENOSPC"} :
         /\ b_steps' = Append(b_steps, Step("prealloc", rc \in {"0", "EINVAL", "ENOTSUP"}))
         /\ IF rc \notin {"0", "EINVAL", "ENOTSUP"}
              THEN BenchReturn("Preallocation failed")
              ELSE /\ b_pc' = "ring_init"
                   /\ UNCHANGED <<b_result, b_open, benchFile>>
    /\ UNCHANGED <<b_prev, size_mb, io_queue_depth, uringVars,
                   stop_requested, expired, g_interrupted>>

\* lines 413-418 and 474-479: io_uring_queue_init, then the call of
\* run_uring_io up to its loop (lines 125-137)
BenchRingInit ==
    /\ b_pc = "ring_init"
    /\ b_mode' = 0
    /\ b_calls' = <<>>
    /\ \E ret \in {0, -1} :
         IF ret # 0
           THEN /\ BenchReturn("FATAL: io_uring init failed")
                /\ b_steps' = Append(b_steps, Step(Phase, FALSE))
                /\ UNCHANGED uringVars
           ELSE /\ b_pc' = "u_loop"
                /\ UNCHANGED b_steps
                /\ b_open' = b_open \cup {"ring"}
                /\ submitted' = 0
                /\ completed' = 0
                /\ interrupt_requested' = FALSE
                /\ free_read_indices' =
                       (IF is_write THEN <<>> ELSE IotaSeq(queue_depth_read))
                /\ u_result' = "none"
                /\ sq' = <<>>
                /\ inflight' = {}
                /\ cq' = <<>>
                /\ u_sub_log' = <<>>
                /\ u_done_log' = <<>>
                /\ u_progress' = <<>>
                /\ UNCHANGED <<is_write, b_result, benchFile>>
    /\ UNCHANGED <<b_prev, size_mb, io_queue_depth,
                   stop_requested, expired, g_interrupted>>


(***************************************************************************)
(* run_uring_io (lines 111-257).  A request is [idx, len, buf]: block      *)
(* index, requested length and read-buffer slot (-1 for a write); its      *)
(* user_data carries len and buf.  A CQE is [req, res].                    *)
(***************************************************************************)
UringUnchangedBench ==
    UNCHANGED <<b_prev, b_mode, b_calls, b_steps, size_mb, io_queue_depth, benchFile, b_open,
                b_result, is_write>>

\* run_uring_io returns res to run_io_test
UringReturn(res) ==
    /\ u_result' = res
    /\ b_pc' = "ring_exit"

\* free_read_indices.back() (line 169); pop_back() then drops that element
vector_front(v) == v[1]
vector_back(v) == v[Len(v)]

\* guard of the inner submission loop (lines 140-141)
MaySubmitNoWindow(sub, comp, total, depth) == sub < total
MaySubmit(sub, comp, total, depth) == sub < total /\ (sub - comp) < depth

\* line 139: while (completed < total_blocks); line 256: return {}
UringLoop ==
    /\ UNCHANGED <<u_sub_log, u_done_log, u_progress>>
    /\ b_pc = "u_loop"
    /\ IF completed < total_blocks
         THEN b_pc' = "u_fill" /\ UNCHANGED u_result
         ELSE UringReturn("ok")
    /\ UNCHANGED <<submitted, completed, interrupt_requested, free_read_indices,
                   sq, inflight, cq, stop_requested, expired, g_interrupted>>
    /\ UringUnchangedBench

\* the SQE prepared for block submitted: io_uring_prep_write / _read at
\* offset_bytes with length len (lines 151-155, 162, 175)
PrepareRequest(sub, chunk, buf_idx) == [idx |-> sub, len |-> chunk, buf |-> buf_idx]
LogEntry(sub, offset_bytes, chunk) == [idx |-> sub, off |-> offset_bytes, len |-> chunk]

\* one iteration of the inner loop (lines 140-185)
UringFill ==
    /\ b_pc = "u_fill"
    /\ IF MaySubmit(submitted, completed, total_blocks, queue_depth)
         THEN
           IF g_interrupted \/ stop_requested \/ interrupt_requested
             THEN /\ interrupt_requested' = TRUE
                  /\ b_pc' = "u_submit"
                  /\ UNCHANGED <<submitted, free_read_indices, sq, u_result,
                                 u_sub_log>>
             ELSE
               LET offset_bytes == submitted * IO_BLOCK_SIZE
                   remaining == total_bytes - offset_bytes
                   chunk == Min(remaining, IO_BLOCK_SIZE)
               IN
               IF is_write
                 THEN /\ sq' = Append(sq, PrepareRequest(submitted, chunk, -1))
                      /\ u_sub_log' = Append(u_sub_log,
                                             LogEntry(submitted, offset_bytes, chunk))
                      /\ submitted' = submitted + 1
                      /\ b_pc' = "u_fill"
                      /\ UNCHANGED <<interrupt_requested, free_read_indices,
                                     u_result>>
                 ELSE IF free_read_indices = <<>>
                   THEN /\ UringReturn("Logic Error: No free read buffers available")
                        /\ UNCHANGED <<submitted, interrupt_requested,
                                       free_read_indices, sq, u_sub_log>>
                   ELSE
                     LET buf_idx == vector_back(free_read_indices) IN
                     /\ free_read_indices' =
                            SubSeq(free_read_indices, 1, Len(free_read_indices) - 1)
                     /\ sq' = Append(sq, PrepareRequest(submitted, chunk, buf_idx))
                     /\ u_sub_log' = Append(u_sub_log,
                                            LogEntry(submitted, offset_bytes, chunk))
                     /\ submitted' = submitted + 1
                     /\ b_pc' = "u_fill"
                     /\ UNCHANGED <<interrupt_requested, u_result>>
         ELSE /\ b_pc' = "u_submit"
              /\ UNCHANGED <<submitted, interrupt_requested, free_read_indices,
                             sq, u_result, u_sub_log>>
    /\ UNCHANGED <<completed, inflight, cq, stop_requested, expired, g_interrupted,
                   u_done_log, u_progress>>
    /\ UringUnchangedBench

\* lines 187-190: io_uring_submit hands the prepared SQEs to the kernel
UringSubmit ==
    /\ UNCHANGED <<u_sub_log, u_done_log, u_progress>>
    /\ b_pc = "u_submit"
    /\ \E submit_rc \in {0, -1} :
         IF submit_rc < 0
           THEN /\ UringReturn("io_uring submit failed")
                /\ UNCHANGED <<sq, inflight>>
           ELSE /\ inflight' = inflight \cup {sq[i] : i \in 1..Len(sq)}
                /\ sq' = <<>>
                /\ b_pc' = "u_wait"
                /\ UNCHANGED u_result
    /\ UNCHANGED <<submitted, completed, interrupt_requested, free_read_indices,
                   cq, stop_requested, expired, g_interrupted>>
    /\ UringUnchangedBench

\* the kernel finishes a request, in any order, with a full, short or failed result
KernelComplete ==
    /\ UNCHANGED <<u_sub_log, u_done_log, u_progress>>
    /\ b_pc \in {"u_loop", "u_fill", "u_submit", "u_wait", "u_reap", "u_check"}
    /\ \E r \in inflight, res \in {"full", "short", "error"} :
         /\ inflight' = inflight \ {r}
         /\ cq' = Append(cq, [req |-> r, res |-> res])
    /\ UNCHANGED <<b_pc, u_result, submitted, completed, interrupt_requested,
                   free_read_indices, sq, stop_requested, expired, g_interrupted>>
    /\ UringUnchangedBench

\* lines 192-193: io_uring_wait_cqe returns 0 once a CQE is available
UringWait ==
    /\ UNCHANGED <<u_sub_log, u_done_log, u_progress>>
    /\ b_pc = "u_wait"
    /\ cq # <<>>
    /\ b_pc' = "u_reap"
    /\ UNCHANGED <<u_result, submitted, completed, interrupt_requested,
                   free_read_indices, sq, inflight, cq, stop_requested, expired,
                   g_interrupted>>
    /\ UringUnchangedBench

\* lines 195-203: the wait answers -EINTR because a signal arrived (when it
\* is SIGINT or SIGTERM the handler of interrupts.cpp has set g_interrupted),
\* or the wait fails for another reason
UringWaitFails ==
    /\ UNCHANGED <<u_sub_log, u_done_log, u_progress>>
    /\ b_pc = "u_wait"
    /\ \E wait_rc \in {"EINTR", "EIO"}, handled \in BOOLEAN :
         IF wait_rc = "EINTR"
           THEN /\ g_interrupted' = (g_interrupted \/ handled)
                /\ interrupt_requested' =
                       (interrupt_requested \/ g_interrupted' \/ stop_requested)
                /\ b_pc' = "u_loop"
                /\ UNCHANGED u_result
           ELSE /\ UringReturn("io_uring wait failed")
                /\ UNCHANGED <<g_interrupted, interrupt_requested>>
    /\ UNCHANGED <<submitted, completed, free_read_indices, sq, inflight, cq,
                   stop_requested, expired>>
    /\ UringUnchangedBench

\* cqe->res != expected_len (line 223), for a result that is not negative
IsPartialNever(res) == FALSE
IsPartial(res) == res # "full"

\* one iteration of io_uring_for_each_cqe (lines 208-240); leaving the loop
\* (line 242) when no CQE is left
UringReap ==
    /\ b_pc = "u_reap"
    /\ IF cq = <<>>
         THEN /\ b_pc' = "u_check"
              /\ UNCHANGED <<u_result, completed, free_read_indices, cq, u_done_log,
                             u_progress>>
         ELSE
           LET cqe == Head(cq) IN
           /\ cq' = Tail(cq)
           /\ free_read_indices' =
                  (IF is_write THEN free_read_indices
                               ELSE Append(free_read_indices, cqe.req.buf))
           /\ IF cqe.res = "error"
                THEN /\ UringReturn("Disk Test failed")
                     /\ UNCHANGED <<completed, u_done_log, u_progress>>
                ELSE IF IsPartial(cqe.res)
                  THEN /\ UringReturn("Disk Test failed: Partial")
                       /\ UNCHANGED <<completed, u_done_log, u_progress>>
                  ELSE /\ completed' = completed + 1
                       /\ u_done_log' = Append(u_done_log,
                              [idx |-> cqe.req.idx, len |-> cqe.req.len, res |-> cqe.res])
                       /\ u_progress' =
                              (IF ReportsProgress(TRUE, completed + 1)
                                 THEN Append(u_progress,
                                             ProgressCall(completed + 1, total_blocks, Phase))
                                 ELSE u_progress)
                       /\ b_pc' = "u_reap"
                       /\ UNCHANGED u_result
    /\ UNCHANGED <<submitted, interrupt_requested, sq, inflight, stop_requested,
                   expired, g_interrupted, u_sub_log>>
    /\ UringUnchangedBench

\* lines 244-253
UringCheck ==
    /\ UNCHANGED <<u_sub_log, u_done_log, u_progress>>
    /\ b_pc = "u_check"
    /\ IF interrupt_requested /\ completed >= submitted
         THEN /\ UringReturn("Operation interrupted by user")
              /\ UNCHANGED interrupt_requested
         ELSE IF expired
           THEN /\ interrupt_requested' = TRUE
                /\ IF completed >= submitted
                     THEN UringReturn("Disk Test timed out (operation took too long)")
                     ELSE b_pc' = "u_loop" /\ UNCHANGED u_result
           ELSE /\ b_pc' = "u_loop"
                /\ UNCHANGED <<u_result, interrupt_requested>>
    /\ UNCHANGED <<submitted, completed, free_read_indices, sq, inflight, cq,
                   stop_requested, expired, g_interrupted>>
    /\ UringUnchangedBench


\* lines 433-435 and 494-496: io_uring_queue_exit, then the error of the
\* phase is returned; lines 441-444 / 499-509 after a successful phase
BenchRingExit ==
    /\ b_pc = "ring_exit"
    /\ b_steps' = (IF u_result = "ok" /\ ~is_write
                      THEN b_steps \o <<Step(Phase, TRUE), Step("result", TRUE)>>
                      ELSE Append(b_steps, Step(Phase, u_result = "ok")))
    /\ sq' = <<>>
    /\ inflight' = {}
    /\ cq' = <<>>
    /\ u_sub_log' = <<>>
    /\ u_done_log' = <<>>
    \* lines 441-444 and 499-502: if (progress_cb) progress_cb(total, total, label)
    /\ u_progress' =
           (IF u_result = "ok"
              THEN Append(u_progress, ProgressCall(total_blocks, total_blocks, Phase))
              ELSE u_progress)
    /\ IF u_result # "ok"
         THEN /\ b_pc' = "returned"
              /\ b_result' = u_result
              /\ b_open' = (b_open \ {"ring"}) \ {"wfd", "rfd"}
              /\ benchFile' = FileCleanerDtor(benchFile)
         ELSE IF is_write
           THEN /\ b_pc' = "sync"
                /\ b_open' = b_open \ {"ring"}
                /\ UNCHANGED <<b_result, benchFile>>
           ELSE /\ b_pc' = "returned"
                /\ b_result' = "ok"
                /\ b_open' = (b_open \ {"ring"}) \ {"wfd", "rfd"}
                /\ benchFile' = FileCleanerDtor(benchFile)
    /\ UNCHANGED <<b_prev, b_mode, b_calls, size_mb, io_queue_depth, is_write, u_result,
                   submitted, completed, interrupt_requested, free_read_indices,
                   stop_requested, expired, g_interrupted>>

\* lines 446-451: fdatasync, posix_fadvise, end of the scope of the write fd
BenchSync ==
    /\ b_pc = "sync"
    /\ \E rc \in {0, -1} :
         /\ b_steps' = Append(b_steps, Step("sync", rc = 0))
         /\ IF SyncFailed(rc)
              THEN BenchReturn("Disk sync failed")
              ELSE /\ b_pc' = "open_r"
                   /\ b_open' = b_open \ {"wfd"}
                   /\ UNCHANGED <<b_result, benchFile>>
    /\ UNCHANGED <<b_prev, b_mode, b_calls, size_mb, io_queue_depth, uringVars,
                   stop_requested, expired, g_interrupted>>

\* lines 459-471: reopen read-only with the mode fallback, new deadline
BenchOpenRead ==
    /\ UNCHANGED <<u_sub_log, u_done_log, u_progress>>
    /\ b_pc = "open_r"
    /\ \E att \in ReadOpenOutcomes(benchFile) :
         LET mode == open_benchmark_file(att) IN
         /\ b_mode' = mode
         /\ b_calls' = open_calls(att)
         /\ b_steps' = Append(b_steps, Step("open_r", mode # 0))
         /\ IF mode = 0
              THEN /\ BenchReturn("open/read failed")
                   /\ UNCHANGED <<is_write, expired>>
              ELSE /\ b_pc' = "ring_init"
                   /\ b_open' = b_open \cup {"rfd"}
                   /\ is_write' = FALSE
                   /\ expired' = FALSE
                   /\ UNCHANGED <<b_result, benchFile>>
    /\ UNCHANGED <<b_prev, size_mb, io_queue_depth, u_result, submitted,
                   completed, interrupt_requested, free_read_indices, sq,
                   inflight, cq, stop_requested, g_interrupted>>

BenchRunning == b_pc # "returned"

\* SIGINT / SIGTERM: signal_handler sets the process-wide flag
BenchInterrupt ==
    /\ BenchRunning
    /\ ~g_interrupted
    /\ g_interrupted' = TRUE
    /\ UNCHANGED benchVars

\* the owner of the stop_source requests a stop
BenchStopRequest ==
    /\ BenchRunning
    /\ ~stop_requested
    /\ stop_requested' = TRUE
    /\ UNCHANGED <<b_pc, b_result, b_prev, benchFile, b_open, b_mode, b_calls, b_steps, size_mb,
                   io_queue_depth, uringVars, expired, g_interrupted>>

\* time passes the deadline of the current phase
BenchDeadlinePasses ==
    /\ BenchRunning
    /\ ~expired
    /\ expired' = TRUE
    /\ UNCHANGED <<b_pc, b_result, b_prev, benchFile, b_open, b_mode, b_calls, b_steps, size_mb,
                   io_queue_depth, uringVars, stop_requested, g_interrupted>>

(***************************************************************************)
(* ShellPipe (constructor, read_all with timeout and stop token,           *)
(* destructor) and the child process it forks.                             *)
(***************************************************************************)
\* the pid returned by fork()
ChildPid == 1

InitPipe ==
    /\ p_pc = "ctor"
    /\ pid_ = -1
    /\ read_fd_open = FALSE
    /\ write_fd_open = FALSE
    /\ child = "unborn"
    /\ c_status = "none"
    /\ c_pending = {}
    /\ c_ignores_term = FALSE
    /\ c_stdout_open = FALSE
    /\ heir = FALSE
    /\ pipe_bytes = 0
    /\ total_read = 0
    /\ truncated = FALSE
    /\ p_expired = FALSE
    /\ p_stop = FALSE
    /\ p_stop_possible \in BOOLEAN
    /\ raise_on_error \in BOOLEAN
    /\ p_result = "none"
    /\ p_sent = <<>>
    /\ g_interrupted = FALSE

\* ~FileDescriptor() of a descriptor wrapper that goes out of scope, or of a
\* member when the constructor of its object throws: the descriptor is closed
FileDescriptorKeepsOpen(is_open) == is_open
FileDescriptorDtor(is_open) == FALSE

\* lines 71-77: ::pipe, read_fd_.reset(pipe_fds[0]), write_fd(pipe_fds[1])
PipeCtorPipe ==
    /\ p_pc = "ctor"
    /\ \E rc \in {0, -1} :
         IF rc = -1
           THEN /\ p_pc' = "ctor_failed"
                /\ UNCHANGED <<read_fd_open, write_fd_open>>
           ELSE /\ p_pc' = "ctor_fork"
                /\ read_fd_open' = TRUE
                /\ write_fd_open' = TRUE
    /\ UNCHANGED <<pid_, childVars, total_read, truncated, p_expired, p_stop,
                   p_stop_possible, raise_on_error, p_result, p_sent, g_interrupted>>

\* lines 79-102: ::fork; when it fails the constructor throws, write_fd and
\* the member read_fd_ are destroyed; otherwise pid_ = pid and write_fd goes
\* out of scope at the end of the constructor.  The child holds the write
\* end as its stdout and stderr, and may pass it on to a descendant
PipeCtorFork ==
    /\ p_pc = "ctor_fork"
    /\ write_fd_open' = FileDescriptorDtor(write_fd_open)
    /\ \E pid \in {ChildPid, -1} :
         IF pid = -1
           THEN /\ p_pc' = "ctor_failed"
                /\ read_fd_open' = FileDescriptorDtor(read_fd_open)
                /\ UNCHANGED <<pid_, childVars>>
           ELSE /\ p_pc' = "idle"
                /\ pid_' = pid
                /\ child' = "running"
                /\ c_stdout_open' = TRUE
                /\ c_ignores_term' \in BOOLEAN
                /\ heir' \in BOOLEAN
                /\ UNCHANGED <<read_fd_open, c_status, c_pending, pipe_bytes>>
    /\ UNCHANGED <<total_read, truncated, p_expired, p_stop, p_stop_possible,
                   raise_on_error, p_result, p_sent, g_interrupted>>

\* every write end of the pipe is closed
PipeEof == ~c_stdout_open /\ ~heir

\* g_interrupted || stop.stop_requested()
CancelSeen == g_interrupted \/ p_stop

\* output.empty()
output_empty == total_read = 0 /\ ~truncated

\* ::kill(pid_, sig): the signal becomes pending in a child that still runs
Kill(sig) ==
    /\ c_pending' = (IF child = "running" THEN c_pending \cup {sig} ELSE c_pending)
    /\ p_sent' = Append(p_sent, sig)

\* the ways a blocking ::waitpid(pid_, &status, 0) comes back: with the pid of
\* a terminated child, with ECHILD when the child was reaped before, or with
\* EINTR when SIGINT or SIGTERM arrived while the child was still running
\* (SignalGuard installs signal_handler without SA_RESTART)
WaitOutcomes(c) ==
    IF c = "zombie" THEN {"reaped"}
    ELSE IF c = "reaped" THEN {"ECHILD"}
    ELSE {"EINTR"}

\* state of the child after that call
AfterWait(c, outcome) == IF outcome = "reaped" THEN "reaped" ELSE c

\* a system call answered EINTR; h: the signal was SIGINT or SIGTERM, whose
\* handler (interrupts.cpp) sets g_interrupted
Handled(h) == g_interrupted' = (g_interrupted \/ h)

\* describe_signal(sig); "USR1" stands for the signals of the default branch
describe_signal(sig) ==
    IF sig = "INT" THEN "Interrupted by user (SIGINT)"
    ELSE IF sig = "TERM" THEN "Terminated (SIGTERM)"
    ELSE IF sig = "KILL" THEN "Killed (SIGKILL)"
    ELSE IF sig = "PIPE" THEN "Broken pipe (SIGPIPE)"
    ELSE IF sig = "SEGV" THEN "Segmentation fault (SIGSEGV)"
    ELSE "Child terminated by signal 10 (User defined signal 1)"

\* WIFSIGNALED(status)
WIFSIGNALEDMissesCrash(status) == status \in {"INT", "TERM", "KILL", "PIPE"}
WIFSIGNALED(status) == status \in {"INT", "TERM", "KILL", "PIPE", "SEGV", "USR1"}

\* WEXITSTATUS(status) of a child that exited; "exit1" stands for every
\* code other than 0
WEXITSTATUS(status) == IF status = "exit0" THEN 0 ELSE 1

\* lines 223-236: the exit code makes read_all throw
ThrowsExitCodeOnlyIfAsked(code, empty, raise) == code # 0 /\ raise
ThrowsExitCode(code, empty, raise) == code # 0 /\ (empty \/ raise)

\* lines 227-229: "Child exited with code N", then the output unless it is empty
ExitCodeMessage(empty) ==
    IF empty THEN "Child exited with code 1"
             ELSE "Child exited with code 1, Output: output"

\* read_all ends by throwing what or by returning the output
PipeEnd(what) ==
    /\ p_pc' = "done"
    /\ p_result' = what

\* line 122-130: read_all is called
PipeReadAll ==
    /\ UNCHANGED write_fd_open
    /\ p_pc = "idle"
    /\ p_pc' = "loop"
    /\ UNCHANGED <<pid_, read_fd_open, childVars, total_read, truncated, p_expired,
                   p_stop, p_stop_possible, raise_on_error, p_result, p_sent,
                   g_interrupted>>

\* lines 133-134
PipeLoopCheck ==
    /\ UNCHANGED write_fd_open
    /\ p_pc = "loop"
    /\ p_pc' = (IF CancelSeen THEN "after_loop" ELSE "time")
    /\ UNCHANGED <<pid_, read_fd_open, childVars, total_read, truncated, p_expired,
                   p_stop, p_stop_possible, raise_on_error, p_result, p_sent,
                   g_interrupted>>

\* lines 136-141: remaining_ms <= 0 starts the timeout path with SIGTERM
PipeTimeCheck ==
    /\ UNCHANGED write_fd_open
    /\ p_pc = "time"
    /\ IF p_expired
         THEN Kill("TERM") /\ p_pc' = "to_nohang"
         ELSE p_pc' = "poll" /\ UNCHANGED <<c_pending, p_sent>>
    /\ UNCHANGED <<pid_, read_fd_open, child, c_status, c_ignores_term,
                   c_stdout_open, heir, pipe_bytes, total_read, truncated,
                   p_expired, p_stop, p_stop_possible, raise_on_error, p_result,
                   g_interrupted>>

\* lines 143-145, after the 100 ms sleep: waitpid(WNOHANG) == 0 sends SIGKILL
PipeTimeoutNoHang ==
    /\ UNCHANGED write_fd_open
    /\ p_pc = "to_nohang"
    /\ IF child = "running"
         THEN Kill("KILL") /\ UNCHANGED child
         ELSE /\ child' = "reaped"
              /\ UNCHANGED <<c_pending, p_sent>>
    /\ p_pc' = "to_wait"
    /\ UNCHANGED <<pid_, read_fd_open, c_status, c_ignores_term, c_stdout_open,
                   heir, pipe_bytes, total_read, truncated, p_expired, p_stop,
                   p_stop_possible, raise_on_error, p_result, g_interrupted>>

\* lines 147-152: blocking waitpid whose result is not looked at, pid_ = -1,
\* read_fd_.reset(), throw
PipeTimeoutWait ==
    /\ UNCHANGED write_fd_open
    /\ p_pc = "to_wait"
    /\ \E outcome \in WaitOutcomes(child) :
         /\ child' = AfterWait(child, outcome)
         /\ Handled(outcome = "EINTR")
    /\ pid_' = -1
    /\ read_fd_open' = FALSE
    /\ PipeEnd("Child process timed out while reading output")
    /\ UNCHANGED <<c_status, c_pending, c_ignores_term, c_stdout_open, heir,
                   pipe_bytes, total_read, truncated, p_expired, p_stop,
                   p_stop_possible, raise_on_error, p_sent>>

\* lines 155-171: poll(read end, remaining_ms)
PipePoll ==
    /\ UNCHANGED write_fd_open
    /\ p_pc = "poll"
    /\ \E poll_res \in {"ready", "timeout", "EINTR", "error"}, h \in BOOLEAN :
         /\ poll_res = "ready" => (pipe_bytes > 0 \/ PipeEof)
         /\ poll_res = "timeout" => ~(pipe_bytes > 0 \/ PipeEof)
         /\ Handled(poll_res = "EINTR" /\ h)
         /\ p_expired' = (p_expired \/ poll_res = "timeout")
         /\ IF poll_res = "ready" THEN p_pc' = "read" /\ UNCHANGED p_result
            ELSE IF poll_res = "timeout" THEN p_pc' = "loop" /\ UNCHANGED p_result
            ELSE IF poll_res = "EINTR"
              THEN /\ p_pc' = (IF g_interrupted' \/ p_stop THEN "after_loop" ELSE "loop")
                   /\ UNCHANGED p_result
              ELSE PipeEnd("poll failed on child output")
    /\ UNCHANGED <<pid_, read_fd_open, childVars, total_read, truncated, p_stop,
                   p_stop_possible, raise_on_error, p_sent>>

\* lines 173-191: read(read end, buffer)
PipeRead ==
    /\ UNCHANGED write_fd_open
    /\ p_pc = "read"
    /\ \E bytes_read \in {"data", "EINTR", "error"}, h \in BOOLEAN :
         /\ Handled(bytes_read = "EINTR" /\ h)
         /\ IF bytes_read = "data"
              THEN
                IF pipe_bytes > 0
                  THEN /\ pipe_bytes' = 0
                       /\ UNCHANGED p_result
                       /\ IF total_read + pipe_bytes > PIPE_MAX_OUTPUT_BYTES
                            THEN /\ truncated' = TRUE
                                 /\ p_pc' = "after_loop"
                                 /\ UNCHANGED total_read
                            ELSE /\ total_read' = total_read + pipe_bytes
                                 /\ p_pc' = "loop"
                                 /\ UNCHANGED truncated
                  ELSE /\ PipeEof
                       /\ p_pc' = "after_loop"
                       /\ UNCHANGED <<pipe_bytes, total_read, truncated, p_result>>
              ELSE IF bytes_read = "EINTR"
                THEN /\ p_pc' = (IF g_interrupted' \/ p_stop THEN "after_loop" ELSE "loop")
                     /\ UNCHANGED <<pipe_bytes, total_read, truncated, p_result>>
                ELSE /\ PipeEnd("Failed to read from pipe")
                     /\ UNCHANGED <<pipe_bytes, total_read, truncated>>
    /\ UNCHANGED <<pid_, read_fd_open, child, c_status, c_pending, c_ignores_term,
                   c_stdout_open, heir, p_expired, p_stop, p_stop_possible,
                   raise_on_error, p_sent>>

\* lines 194-199: read_fd_.reset(); with a cancellation seen, SIGTERM
PipeAfterLoop ==
    /\ UNCHANGED write_fd_open
    /\ p_pc = "after_loop"
    /\ read_fd_open' = FALSE
    /\ IF pid_ # -1
         THEN IF CancelSeen
                THEN Kill("TERM") /\ p_pc' = "c_nohang" /\ UNCHANGED p_result
                ELSE p_pc' = "wait" /\ UNCHANGED <<c_pending, p_sent, p_result>>
         ELSE PipeEnd("output") /\ UNCHANGED <<c_pending, p_sent>>
    /\ UNCHANGED <<pid_, child, c_status, c_ignores_term, c_stdout_open, heir,
                   pipe_bytes, total_read, truncated, p_expired, p_stop,
                   p_stop_possible, raise_on_error, g_interrupted>>

\* lines 201-203 and 207-208, after the 100 ms sleep
PipeCancelNoHang ==
    /\ UNCHANGED write_fd_open
    /\ p_pc = "c_nohang"
    /\ IF child = "running"
         THEN /\ Kill("KILL")
              /\ p_pc' = "c_wait"
              /\ UNCHANGED <<child, pid_, p_result>>
         ELSE /\ child' = "reaped"
              /\ pid_' = -1
              /\ PipeEnd("Operation interrupted by user")
              /\ UNCHANGED <<c_pending, p_sent>>
    /\ UNCHANGED <<read_fd_open, c_status, c_ignores_term, c_stdout_open, heir,
                   pipe_bytes, total_read, truncated, p_expired, p_stop,
                   p_stop_possible, raise_on_error, g_interrupted>>

\* lines 204-208: blocking waitpid whose result is not looked at, pid_ = -1, throw
PipeCancelWait ==
    /\ UNCHANGED write_fd_open
    /\ p_pc = "c_wait"
    /\ \E outcome \in WaitOutcomes(child) :
         /\ child' = AfterWait(child, outcome)
         /\ Handled(outcome = "EINTR")
    /\ pid_' = -1
    /\ PipeEnd("Operation interrupted by user")
    /\ UNCHANGED <<read_fd_open, c_status, c_pending, c_ignores_term,
                   c_stdout_open, heir, pipe_bytes, total_read, truncated,
                   p_expired, p_stop, p_stop_possible, raise_on_error, p_sent>>

\* lines 211-236: blocking waitpid, then the exit status decides
PipeWait ==
    /\ UNCHANGED write_fd_open
    /\ p_pc = "wait"
    /\ \E outcome \in WaitOutcomes(child) :
         /\ child' = AfterWait(child, outcome)
         /\ Handled(outcome = "EINTR")
         /\ IF outcome # "reaped"
              THEN /\ PipeEnd("waitpid failed for child process")
                   /\ UNCHANGED pid_
              ELSE /\ pid_' = -1
                   /\ IF WIFSIGNALED(c_status)
                        THEN PipeEnd(describe_signal(c_status))
                        ELSE IF ThrowsExitCode(WEXITSTATUS(c_status), output_empty,
                                               raise_on_error)
                          THEN PipeEnd(ExitCodeMessage(output_empty))
                          ELSE PipeEnd("output")
    /\ UNCHANGED <<read_fd_open, c_status, c_pending, c_ignores_term,
                   c_stdout_open, heir, pipe_bytes, total_read, truncated,
                   p_expired, p_stop, p_stop_possible, raise_on_error, p_sent>>

\* line 107: if (pid_ > 0): the destructor signals and waits only for a
\* child that no wait has reaped
DtorSignalsAlways(pid) == TRUE
DtorSignals(pid) == pid > 0

\* lines 105-108: ~ShellPipe, with or without a read_all before it
PipeDtor ==
    /\ UNCHANGED write_fd_open
    /\ p_pc \in {"idle", "done"}
    /\ read_fd_open' = FALSE
    /\ IF DtorSignals(pid_)
         THEN Kill("TERM") /\ p_pc' = "d_nohang1"
         ELSE p_pc' = "destroyed" /\ UNCHANGED <<c_pending, p_sent>>
    /\ UNCHANGED <<pid_, child, c_status, c_ignores_term, c_stdout_open, heir,
                   pipe_bytes, total_read, truncated, p_expired, p_stop,
                   p_stop_possible, raise_on_error, p_result, g_interrupted>>

\* line 110: the first waitpid(WNOHANG); line 118 when it reaped the child
PipeDtorNoHang1 ==
    /\ UNCHANGED write_fd_open
    /\ p_pc = "d_nohang1"
    /\ IF child = "zombie"
         THEN child' = "reaped" /\ pid_' = -1 /\ p_pc' = "destroyed"
         ELSE p_pc' = "d_nohang2" /\ UNCHANGED <<child, pid_>>
    /\ UNCHANGED <<read_fd_open, c_status, c_pending, c_ignores_term,
                   c_stdout_open, heir, pipe_bytes, total_read, truncated,
                   p_expired, p_stop, p_stop_possible, raise_on_error, p_result,
                   p_sent, g_interrupted>>

\* lines 111-114: after 32 ms the second waitpid(WNOHANG), then SIGKILL
PipeDtorNoHang2 ==
    /\ UNCHANGED write_fd_open
    /\ p_pc = "d_nohang2"
    /\ IF child = "zombie"
         THEN /\ child' = "reaped" /\ pid_' = -1 /\ p_pc' = "destroyed"
              /\ UNCHANGED <<c_pending, p_sent>>
         ELSE /\ Kill("KILL")
              /\ p_pc' = "d_wait"
              /\ UNCHANGED <<child, pid_>>
    /\ UNCHANGED <<read_fd_open, c_status, c_ignores_term, c_stdout_open, heir,
                   pipe_bytes, total_read, truncated, p_expired, p_stop,
                   p_stop_possible, raise_on_error, p_result, g_interrupted>>

\* lines 115-118: blocking waitpid whose result is not looked at, pid_ = -1
PipeDtorWait ==
    /\ UNCHANGED write_fd_open
    /\ p_pc = "d_wait"
    /\ \E outcome \in WaitOutcomes(child) :
         /\ child' = AfterWait(child, outcome)
         /\ Handled(outcome = "EINTR")
    /\ pid_' = -1
    /\ p_pc' = "destroyed"
    /\ UNCHANGED <<read_fd_open, c_status, c_pending, c_ignores_term,
                   c_stdout_open, heir, pipe_bytes, total_read, truncated,
                   p_expired, p_stop, p_stop_possible, raise_on_error, p_result,
                   p_sent>>

PipeUnchangedParent ==
    UNCHANGED <<p_pc, pid_, read_fd_open, write_fd_open, total_read, truncated, p_expired, p_stop,
                p_stop_possible, raise_on_error, p_result, p_sent, g_interrupted>>

\* the child writes to its stdout
ChildWrites ==
    /\ child = "running" /\ c_stdout_open
    /\ pipe_bytes = 0
    /\ \E n \in 1..MaxChunk : pipe_bytes' = n
    /\ UNCHANGED <<child, c_status, c_pending, c_ignores_term, c_stdout_open, heir>>
    /\ PipeUnchangedParent

\* the child closes its stdout and stderr and goes on running
ChildClosesStdout ==
    /\ child = "running" /\ c_stdout_open
    /\ c_stdout_open' = FALSE
    /\ UNCHANGED <<child, c_status, c_pending, c_ignores_term, heir, pipe_bytes>>
    /\ PipeUnchangedParent

\* the child exits by itself
ChildExits ==
    /\ child = "running"
    /\ \E code \in {"exit0", "exit1"} : c_status' = code
    /\ child' = "zombie"
    /\ c_stdout_open' = FALSE
    /\ UNCHANGED <<c_pending, c_ignores_term, heir, pipe_bytes>>
    /\ PipeUnchangedParent

\* the child is terminated by a pending signal it does not ignore, or crashes
ChildDies ==
    /\ child = "running"
    /\ \E sig \in (c_pending \ (IF c_ignores_term THEN {"TERM"} ELSE {}))
                     \cup {"SEGV", "USR1"} :
         c_status' = sig
    /\ child' = "zombie"
    /\ c_stdout_open' = FALSE
    /\ UNCHANGED <<c_pending, c_ignores_term, heir, pipe_bytes>>
    /\ PipeUnchangedParent

\* the child writes to its stdout after the last read end was closed (the
\* parent's by read_fd_.reset(), the child's own copy before exec, line 91):
\* the write raises SIGPIPE, whose default action terminates the child
ChildBrokenPipe ==
    /\ child = "running" /\ c_stdout_open
    /\ ~read_fd_open
    /\ c_status' = "PIPE"
    /\ child' = "zombie"
    /\ c_stdout_open' = FALSE
    /\ UNCHANGED <<c_pending, c_ignores_term, heir, pipe_bytes>>
    /\ PipeUnchangedParent

\* the descendant holding the write end closes it (or exits)
HeirCloses ==
    /\ heir
    /\ heir' = FALSE
    /\ UNCHANGED <<child, c_status, c_pending, c_ignores_term, c_stdout_open,
                   pipe_bytes>>
    /\ PipeUnchangedParent

PipeAlive == p_pc \notin {"destroyed", "ctor_failed"}

\* SIGINT / SIGTERM: signal_handler sets the process-wide flag
PipeInterrupt ==
    /\ PipeAlive
    /\ ~g_interrupted
    /\ g_interrupted' = TRUE
    /\ UNCHANGED pipeVars

\* the owner of the stop_source requests a stop
PipeStopRequest ==
    /\ UNCHANGED write_fd_open
    /\ PipeAlive
    /\ p_stop_possible /\ ~p_stop
    /\ p_stop' = TRUE
    /\ UNCHANGED <<p_pc, pid_, read_fd_open, childVars, total_read, truncated,
                   p_expired, p_stop_possible, raise_on_error, p_result, p_sent,
                   g_interrupted>>

\* time passes the deadline of read_all
PipeDeadlinePasses ==
    /\ UNCHANGED write_fd_open
    /\ p_pc \notin {"ctor", "ctor_fork", "ctor_failed", "idle", "done", "destroyed"}
    /\ ~p_expired
    /\ p_expired' = TRUE
    /\ UNCHANGED <<p_pc, pid_, read_fd_open, childVars, total_read, truncated,
                   p_stop, p_stop_possible, raise_on_error, p_result, p_sent,
                   g_interrupted>>

(***************************************************************************)
(* TgzExtractor::extract (tgz_extractor.cpp).  A string is a sequence of   *)
(* characters; "CTRL" stands for a control byte below 32 other than TAB,   *)
(* "HIGH" for a byte above 127, "TAB" for a tab, "BACKTICK" for a         *)
(* backquote.  A filesystem path is the                                    *)
(* sequence of its components from the root, each component a string.      *)
(* Sizes are counted in units of one payload chunk.                        *)
(***************************************************************************)
Lower == {"a", "b", "c", "d", "e", "f", "g", "h", "i", "j", "k", "l", "m",
          "n", "o", "p", "q", "r", "s", "t", "u", "v", "w", "x", "y", "z"}
Upper == {"A", "B", "C", "D", "E", "F", "G", "H", "I", "J", "K", "L", "M",
          "N", "O", "P", "Q", "R", "S", "T", "U", "V", "W", "X", "Y", "Z"}
Digits == {"0", "1", "2", "3", "4", "5", "6", "7", "8", "9"}

Contains(s, sub) ==
    \E i \in 1..(Len(s) - Len(sub) + 1) : SubSeq(s, i, i + Len(sub) - 1) = sub
StartsWith(s, pre) == Len(s) >= Len(pre) /\ SubSeq(s, 1, Len(pre)) = pre
EndsWith(s, suf) ==
    Len(s) >= Len(suf) /\ SubSeq(s, Len(s) - Len(suf) + 1, Len(s)) = suf

\* uc > 127 || (uc < 32 && uc != '\t')
BadByte(c) == c \in {"CTRL", "HIGH"}

\* get_safe_string on the bytes of a header field up to its first NUL
get_safe_string(data) ==
    IF \E i \in 1..Len(data) : BadByte(data[i]) \/ i > TGZ_MAX_PATH_LENGTH
      THEN [has_value |-> FALSE, value |-> <<>>]
      ELSE [has_value |-> TRUE, value |-> data]

is_safe_filename_char(c) ==
    c \in Lower \cup Upper \cup Digits \cup {"-", "_", ".", " "}

is_safe_filename(filename) ==
    /\ ~(filename = <<>> \/ Len(filename) > TGZ_MAX_PATH_LENGTH)
    /\ ~(\/ filename = <<".", ".">>
         \/ filename = <<".">>
         \/ StartsWith(filename, <<".">>)
         \/ EndsWith(filename, <<".">>)
         \/ Contains(filename, <<".", ".">>))
    /\ \A i \in 1..Len(filename) : is_safe_filename_char(filename[i])

RECURSIVE Components(_)
\* iteration over std::filesystem::path(path_str): the pieces between '/'
Components(s) ==
    IF ~Contains(s, <<"/">>) THEN <<s>>
    ELSE LET i == CHOOSE k \in 1..Len(s) :
                      s[k] = "/" /\ \A j \in 1..(k - 1) : s[j] # "/"
         IN <<SubSeq(s, 1, i - 1)>> \o Components(SubSeq(s, i + 1, Len(s)))

\* ---- the filesystem: a function from the paths that exist to their kind
\* ("dir", "file", "link"); every symbolic link points to LinkTarget
dest_dir == << <<"t">>, <<"d">> >>
LinkTarget == << <<"t">>, <<"o">> >>

parent_path(p) == SubSeq(p, 1, Len(p) - 1)

Kind(f, p) == IF p \in DOMAIN f THEN f[p] ELSE "absent"

RECURSIVE Phys(_, _)
\* where the kernel finds the entry named p: symbolic links in the
\* directories leading to it are followed, the last component is not
Phys(f, p) ==
    IF p = <<>> THEN <<>>
    ELSE LET par == Phys(f, parent_path(p))
             dir == IF Kind(f, par) = "link" THEN LinkTarget ELSE par
         IN Append(dir, p[Len(p)])

AddEntry(f, p, kind) == (p :> kind) @@ f
RemoveEntry(f, p) == [q \in DOMAIN f \ {p} |-> f[q]]
HasChildren(f, p) == \E q \in DOMAIN f : Len(q) > 0 /\ parent_path(q) = p

\* ::mkdir(dir_path): an errno, or "ok"; fails: the call fails for another
\* reason (EACCES, ENOSPC ...) where it would have created the directory
mkdir(f, dir_path, fails) ==
    LET where == Phys(f, dir_path) IN
    IF Kind(f, where) # "absent" THEN "EEXIST"
    ELSE IF Kind(f, parent_path(where)) # "dir" THEN "ENOENT"
    ELSE IF fails THEN "EACCES"
    ELSE "ok"

\* st_mode seen by ::lstat(dir_path)
lstat(f, dir_path) == Kind(f, Phys(f, dir_path))

RECURSIVE weakly_canonical(_, _)
\* std::filesystem::weakly_canonical(p): the symbolic links among the
\* components that exist are resolved, the last one included
weakly_canonical(f, p) ==
    IF p = <<>> THEN <<>>
    ELSE LET q == Append(weakly_canonical(f, parent_path(p)), p[Len(p)])
         IN IF Kind(f, q) = "link" THEN LinkTarget ELSE q

\* std::filesystem::relative(result, base_dir):
\* weakly_canonical(result).lexically_relative(weakly_canonical(base_dir))
relative(f, result, base_dir) ==
    LET r == weakly_canonical(f, result)
        b == weakly_canonical(f, base_dir)
    IN IF r = b THEN <<<<".">>>>
       ELSE IF StartsWith(r, b) THEN SubSeq(r, Len(b) + 1, Len(r))
       ELSE <<<<".", ".">>>> \o r

\* result = base_dir; result /= component, for every component
AppendComponentsSkipsFirst(base_dir, comps) == base_dir \o Tail(comps)
AppendComponents(base_dir, comps) == base_dir \o comps

sanitize_path(f, base_dir, path_str) ==
    LET nullopt == [has_value |-> FALSE, value |-> <<>>]
        comps == Components(path_str)
        result == AppendComponents(base_dir, comps)
        lexical_rel == relative(f, result, base_dir)
    IN
    IF path_str = <<>> \/ Len(path_str) > TGZ_MAX_TOTAL_PATH_LENGTH THEN nullopt
    ELSE IF \E i \in 1..Len(path_str) : BadByte(path_str[i]) THEN nullopt
    ELSE IF \/ Contains(path_str, <<".", ".", "/">>)
            \/ Contains(path_str, <<".", ".", "\\">>)
            \/ Contains(path_str, <<"/", "/">>)
            \/ Contains(path_str, <<"\\", "\\">>)
            \/ Contains(path_str, <<":", "\\">>)
            \/ StartsWith(path_str, <<"/">>)
            \/ StartsWith(path_str, <<"\\">>)
            \/ StartsWith(path_str, <<"~">>)
            \/ \E i \in 1..Len(path_str) : path_str[i] \in {";", "&", "$", "BACKTICK", "|"}
         THEN nullopt
    ELSE IF Len(comps) > TGZ_MAX_PATH_DEPTH THEN nullopt
    ELSE IF \E i \in 1..Len(comps) : ~is_safe_filename(comps[i]) THEN nullopt
    ELSE IF lexical_rel = <<>> \/ StartsWith(lexical_rel[1], <<".", ".">>) THEN nullopt
    ELSE [has_value |-> TRUE, value |-> result]

RECURSIVE create_secure_directory(_, _, _)
\* st = [fs, created, err]: the filesystem, the paths created so far and
\* the error returned ("none": success)
create_secure_directory(st, dir_path, fails) ==
    LET st1 == IF Len(dir_path) > 0
                 THEN create_secure_directory(st, parent_path(dir_path), fails)
                 ELSE st
        rc == mkdir(st1.fs, dir_path, fails)
        where == Phys(st1.fs, dir_path)
    IN
    IF st1.err # "none" THEN st1
    ELSE IF rc = "ok"
      THEN [st1 EXCEPT !.fs = AddEntry(st1.fs, where, "dir"),
                       !.created = @ \cup {where}]
    ELSE IF rc = "EEXIST"
      THEN IF lstat(st1.fs, dir_path) = "dir"
             THEN st1
             ELSE [st1 EXCEPT !.err = "SymlinkDetected"]
    ELSE [st1 EXCEPT !.err = "CreateDirFailed"]

\* type_flag == '1' || type_flag == '2'
IsLinkOnlySymbolic(type_flag) == type_flag = "2"
IsLink(type_flag) == type_flag \in {"1", "2"}

\* ++file_count > Config::TGZ_MAX_FILES, count: the incremented file_count
TooManyFilesOffByOne(count) == count > TGZ_MAX_FILES + 1
TooManyFiles(count) == count > TGZ_MAX_FILES

\* file_size > Config::TGZ_MAX_FILE_SIZE
ExceedsFileInclusive(file_size) == file_size >= TGZ_MAX_FILE_SIZE
ExceedsFile(file_size) == file_size > TGZ_MAX_FILE_SIZE

\* (TAR_BLOCK_SIZE - (file_size % TAR_BLOCK_SIZE)) % TAR_BLOCK_SIZE
paddingWholeBlock(file_size) == TAR_BLOCK_SIZE - (file_size % TAR_BLOCK_SIZE)
padding(file_size) == (TAR_BLOCK_SIZE - (file_size % TAR_BLOCK_SIZE)) % TAR_BLOCK_SIZE

\* full_blocks * TAR_BLOCK_SIZE
skip_bytesUnrounded(total_data) == total_data
skip_bytes(total_data) ==
    ((total_data + TAR_BLOCK_SIZE - 1) \div TAR_BLOCK_SIZE) * TAR_BLOCK_SIZE

\* ~SecureFileHandle of a handle that was not committed
SecureFileHandleKeeps(f, file_path_) == f
SecureFileHandleDtor(f, file_path_) ==
    IF Kind(f, file_path_) # "absent" THEN RemoveEntry(f, file_path_) ELSE f

\* no SecureFileHandle was being constructed when extract stopped
NoFile == [path |-> <<>>, state |-> "none"]

\* file_size > Config::TGZ_MAX_TOTAL_SIZE - total_extracted_size
ExceedsTotalIgnoresRunning(file_size, total) == file_size > TGZ_MAX_TOTAL_SIZE
ExceedsTotal(file_size, total) == file_size > TGZ_MAX_TOTAL_SIZE - total

\* lines 324-376: the checks made on a header, in the order of the source;
\* the error of the first one that fails, "none" when all pass.  count: the
\* incremented file_count, total: total_extracted_size, path_ok:
\* safe_path.has_value()
HeaderChecksSizeBeforeLink(count, checksum_ok, name_ok, prefix_ok, type_flag, file_size, total, path_ok) ==
    IF TooManyFiles(count) THEN "ArchiveTooLarge"
    ELSE IF ~checksum_ok THEN "InvalidChecksum"
    ELSE IF ~name_ok \/ ~prefix_ok THEN "InvalidHeader"
    ELSE IF ExceedsFile(file_size) THEN "FileTooLarge"
    ELSE IF ExceedsTotal(file_size, total) THEN "ArchiveTooLarge"
    ELSE IF IsLink(type_flag) THEN "SymlinkDetected"
    ELSE IF ~path_ok THEN "PathTraversalDetected"
    ELSE "none"
HeaderChecks(count, checksum_ok, name_ok, prefix_ok, type_flag, file_size, total, path_ok) ==
    IF TooManyFiles(count) THEN "ArchiveTooLarge"
    ELSE IF ~checksum_ok THEN "InvalidChecksum"
    ELSE IF ~name_ok \/ ~prefix_ok THEN "InvalidHeader"
    ELSE IF IsLink(type_flag) THEN "SymlinkDetected"
    ELSE IF ExceedsFile(file_size) THEN "FileTooLarge"
    ELSE IF ExceedsTotal(file_size, total) THEN "ArchiveTooLarge"
    ELSE IF ~path_ok THEN "PathTraversalDetected"
    ELSE "none"

\* ---- archive contents offered to extract
NamePool ==
    { <<"a">>, <<"a", "/", "b">>,
      <<".", ".", "/", "o">>, <<"/", "o">>, <<".", ".">>, <<"a", "/">>,
      <<"a", "\\", "b">>, <<"a", "TAB", "b">>, <<"a", "CTRL">>, <<>> }
PrefixPool == { <<>>, <<"a">>, <<"HIGH">> }
TypeFlags == {"0", "NUL", "5", "1", "2", "x"}
SizeValues == 0..(TGZ_MAX_FILE_SIZE + 1)

NoHeader == [type_flag |-> "none", checksum_ok |-> TRUE, name_ok |-> TRUE,
             prefix_ok |-> TRUE, file_size |-> 0, full_path |-> <<>>]

MkFs(S) == [p \in {x[1] : x \in S} |-> (CHOOSE x \in S : x[1] = p)[2]]

\* the states the filesystem can be in when extract is called
InitFsSet ==
    { MkFs({<< <<>>, "dir" >>}) }
    \cup
    { MkFs({<< <<>>, "dir" >>, << <<<<"t">>>>, "dir" >>, << LinkTarget, "dir" >>}
           \cup d \cup a \cup ab) :
        d \in { {}, {<<dest_dir, "dir">>}, {<<dest_dir, "link">>} },
        a \in { {} } \cup { {<<Append(dest_dir, <<"a">>), k>>} : k \in {"dir", "file", "link"} },
        ab \in { {}, {<<dest_dir \o << <<"a">>, <<"b">> >>, "file">>} } }

\* an initial filesystem is a tree: every entry lies in a directory
WellFormedFs(f) ==
    \A p \in DOMAIN f : Len(p) > 0 => Kind(f, parent_path(p)) = "dir"

InitTgz ==
    /\ t_pc = "open"
    /\ t_result = "none"
    /\ t_fs \in {f \in InitFsSet : WellFormedFs(f)}
    /\ t_created = {}
    /\ total_extracted_size = 0
    /\ file_count = 0
    /\ t_hdr = NoHeader
    /\ t_entry_created = {}
    /\ t_entry_written = 0
    /\ t_link_accepted = FALSE
    /\ t_pos = 0
    /\ t_opened = 0
    /\ t_file = NoFile
    /\ t_fds = {}

\* GzFileDeleter at the end of the scope of gz: gzclose
GzFileDeleter(fds) == fds \ {"gz"}

\* the end of the scope of secure_file: ~SecureFileHandle destroys its
\* member fd_, a FileDescriptor, which closes the descriptor
SecureFileScopeEnd(fds) == fds \ {"fd_"}

\* extract returns err (an ExtractError, or "Ok") holding the descriptors fds
TgzReturnWith(err, fds) ==
    /\ t_pc' = "done"
    /\ t_result' = err
    /\ t_fds' = GzFileDeleter(fds)

TgzReturn(err) == TgzReturnWith(err, t_fds)

\* lines 293-299: gzopen
TgzOpen ==
    /\ t_pc = "open"
    /\ \E gz \in {"ok", "null"} :
         IF gz = "null"
           THEN TgzReturn("OpenFileFailed")
           ELSE t_pc' = "loop" /\ t_fds' = {"gz"} /\ UNCHANGED t_result
    /\ UNCHANGED <<t_fs, t_created, total_extracted_size, file_count, t_hdr,
                   t_entry_created, t_entry_written, t_link_accepted,
                   t_pos, t_opened, t_file>>

\* lines 304-322: gzread of a header block that is no entry: read error,
\* end of stream, short block, all-zero block
TgzNoEntry ==
    /\ t_pc = "loop"
    /\ \E block \in {"error", "eof", "short", "zero"},
          bytes_read \in 0..TAR_BLOCK_SIZE :
         /\ block \in {"error", "eof"} => bytes_read = 0
         /\ block = "short" => bytes_read \in 1..(TAR_BLOCK_SIZE - 1)
         /\ block = "zero" => bytes_read = TAR_BLOCK_SIZE
         /\ t_pos' = t_pos + bytes_read
         /\ TgzReturn(IF block = "error" THEN "ReadFailed"
                      ELSE IF block = "short" THEN "InvalidHeader"
                      ELSE "Ok")
    /\ UNCHANGED <<t_fs, t_created, total_extracted_size, file_count, t_hdr,
                   t_entry_created, t_entry_written, t_link_accepted,
                   t_opened, t_file>>

\* the entry h ends the extraction with err; f and c: filesystem and
\* created paths at that moment, w: payload bytes written for the entry,
\* pos: offset reached in the stream, n: files opened, file: the
\* SecureFileHandle involved
TgzEntryFails(h, err, f, c, w, pos, n, file) ==
    /\ TgzReturnWith(err, SecureFileScopeEnd(
            t_fds \cup (IF file.state = "abandoned" THEN {"fd_"} ELSE {})))
    /\ t_fs' = f
    /\ t_created' = c
    /\ t_hdr' = h
    /\ t_entry_created' = c \ t_created
    /\ t_entry_written' = w
    /\ t_pos' = pos
    /\ t_opened' = n
    /\ t_file' = file
    /\ UNCHANGED total_extracted_size

\* the entry is rejected by a check made on its header alone
TgzHeaderFails(h, err) ==
    TgzEntryFails(h, err, t_fs, t_created, 0, t_pos + TAR_BLOCK_SIZE, t_opened, NoFile)

\* the entry is done and the loop goes on
TgzEntryDone(f, c, total, pos, n) ==
    /\ t_pc' = "loop"
    /\ UNCHANGED <<t_result, t_hdr, t_entry_created, t_entry_written, t_file>>
    /\ t_fs' = f
    /\ t_created' = c
    /\ total_extracted_size' = total
    /\ t_pos' = pos
    /\ t_opened' = n
    /\ t_fds' = SecureFileScopeEnd(t_fds \cup (IF n > t_opened THEN {"fd_"} ELSE {}))

\* lines 391-431: SecureFileHandle on file_path, payload, commit
TgzExtractFile(h, st, file_path, file_size) ==
    LET where == Phys(st.fs, file_path)
        old == Kind(st.fs, where)
        payload == t_pos + TAR_BLOCK_SIZE
    IN
    \E io \in {"ok", "remove_fail", "open_fail", "read_fail", "write_fail", "seek_fail"},
       written \in 0..file_size, chunk_read \in 0..file_size :
      /\ io = "remove_fail" => old # "absent"
      /\ io \in {"read_fail", "write_fail"} => written < file_size
      /\ io \in {"ok", "seek_fail"} => written = file_size
      /\ io \in {"remove_fail", "open_fail"} => written = 0
      /\ io = "seek_fail" => padding(file_size) > 0
      /\ io = "write_fail" => chunk_read \in 1..(file_size - written)
      /\ io # "write_fail" => chunk_read = 0
      /\ IF io = "remove_fail" \/ (old = "dir" /\ HasChildren(st.fs, where))
           THEN TgzEntryFails(h, "WriteFileFailed", st.fs, st.created, 0, payload,
                              t_opened, [path |-> where, state |-> "remove_failed"])
         ELSE LET removed == IF old = "absent" THEN st.fs ELSE RemoveEntry(st.fs, where)
                  opened == AddEntry(removed, where, "file")
                  made == st.created \cup {where}
                  abandoned == SecureFileHandleDtor(opened, where)
                  file == [path |-> where, state |-> "abandoned"]
              IN
              IF io = "open_fail"
                THEN TgzEntryFails(h, "WriteFileFailed", removed, st.created, 0, payload,
                                   t_opened, [path |-> where, state |-> "open_failed"])
              ELSE IF io = "read_fail"
                THEN TgzEntryFails(h, "ReadFailed", abandoned, made, written,
                                   payload + written, t_opened + 1, file)
              ELSE IF io = "seek_fail"
                THEN TgzEntryFails(h, "ReadFailed", abandoned, made, written,
                                   payload + file_size, t_opened + 1, file)
              ELSE IF io = "write_fail"
                THEN TgzEntryFails(h, "WriteFileFailed", abandoned, made, written,
                                   payload + written + chunk_read, t_opened + 1, file)
              ELSE TgzEntryDone(opened, made, total_extracted_size + file_size,
                                payload + file_size + padding(file_size), t_opened + 1)

\* lines 324-447: one header block that is an entry
TgzEntry ==
    /\ t_pc = "loop"
    /\ \E checksum_ok \in BOOLEAN, name \in NamePool, prefix \in PrefixPool,
          type_flag \in TypeFlags, file_size \in SizeValues :
         LET name_result == get_safe_string(name)
             prefix_result == get_safe_string(prefix)
             name_str == name_result.value
             prefix_str == prefix_result.value
             full_path == IF prefix_str # <<>>
                            THEN prefix_str \o <<"/">> \o name_str
                            ELSE name_str
             safe_path == sanitize_path(t_fs, dest_dir, full_path)
             file_path == safe_path.value
             st == [fs |-> t_fs, created |-> t_created, err |-> "none"]
             h == [type_flag |-> type_flag, checksum_ok |-> checksum_ok,
                   name_ok |-> name_result.has_value,
                   prefix_ok |-> prefix_result.has_value,
                   file_size |-> file_size,
                   full_path |-> IF name_result.has_value /\ prefix_result.has_value
                                   THEN full_path ELSE <<>>]
             past_checks == /\ ~TooManyFiles(file_count + 1)
                            /\ checksum_ok
                            /\ name_result.has_value /\ prefix_result.has_value
                            /\ ~IsLink(type_flag)
             payload == t_pos + TAR_BLOCK_SIZE
             header_error ==
                 HeaderChecks(file_count + 1, checksum_ok, name_result.has_value,
                              prefix_result.has_value, type_flag, file_size,
                              total_extracted_size, safe_path.has_value)
         IN
         /\ file_count' = file_count + 1
         /\ t_link_accepted' =
                (t_link_accepted \/ (past_checks /\ type_flag \in {"1", "2"}))
         /\ IF header_error # "none"
              THEN TgzHeaderFails(h, header_error)
            ELSE IF type_flag = "5"
              THEN \E fails \in BOOLEAN :
                     LET r == create_secure_directory(st, file_path, fails) IN
                     IF r.err # "none"
                       THEN TgzEntryFails(h, r.err, r.fs, r.created, 0, payload,
                                          t_opened, NoFile)
                       ELSE TgzEntryDone(r.fs, r.created, total_extracted_size,
                                         payload, t_opened)
            ELSE IF type_flag \in {"0", "NUL"}
              THEN \E fails \in BOOLEAN :
                     LET r == create_secure_directory(st, parent_path(file_path), fails) IN
                     IF r.err # "none"
                       THEN TgzEntryFails(h, r.err, r.fs, r.created, 0, payload,
                                          t_opened, NoFile)
                       ELSE TgzExtractFile(h, r, file_path, file_size)
            ELSE \E seek \in {0, -1} :
                   IF seek = -1
                     THEN TgzEntryFails(h, "ReadFailed", t_fs, t_created, 0, payload,
                                        t_opened, NoFile)
                     ELSE TgzEntryDone(t_fs, t_created,
                                       total_extracted_size + file_size,
                                       payload + skip_bytes(file_size), t_opened)

\* SIGINT / SIGTERM while extract runs: signal_handler sets the process-wide
\* flag (interrupts.cpp); extract itself never reads it
TgzInterrupt ==
    /\ t_pc \in {"open", "loop"}
    /\ ~g_interrupted
    /\ g_interrupted' = TRUE
    /\ UNCHANGED tgzVars

(***************************************************************************)
(* sanitize_path on its own: one call, then a second call on the result    *)
(* of the first made relative to base_dir.                                 *)
(***************************************************************************)
SanChars == {"a", "b", ".", "/", "\\", "~"}

RECURSIVE StringsUpTo(_)
\* every string over SanChars of at most n characters
StringsUpTo(n) ==
    IF n = 0 THEN { <<>> }
    ELSE LET shorter == StringsUpTo(n - 1)
         IN shorter \cup { Append(x, c) : x \in shorter, c \in SanChars }

SanBases == { dest_dir, << <<"t">> >> }

RECURSIVE DeepPath(_)
\* the path_str "a/a/.../a" of n components
DeepPath(n) == IF n <= 1 THEN <<"a">> ELSE <<"a", "/">> \o DeepPath(n - 1)

\* path_str at the depth limit and one component beyond it
SanDeepPaths == {DeepPath(TGZ_MAX_PATH_DEPTH), DeepPath(TGZ_MAX_PATH_DEPTH + 1)}

RECURSIVE generic_string(_)
\* the text of a relative std::filesystem::path: its components joined by '/'
generic_string(comps) ==
    IF comps = <<>> THEN <<>>
    ELSE IF Len(comps) = 1 THEN comps[1]
    ELSE comps[1] \o <<"/">> \o generic_string(Tail(comps))

\* path.lexically_relative(base) of a path that lies under base
lexically_relative(path, base) == SubSeq(path, Len(base) + 1, Len(path))

NoResult == [has_value |-> FALSE, value |-> <<>>]

InitSan ==
    /\ s_pc = "start"
    /\ s_fs \in {f \in InitFsSet : WellFormedFs(f)}
    /\ s_base \in SanBases
    /\ s_path \in StringsUpTo(MaxPathStr) \cup SanDeepPaths
    /\ s_first = NoResult
    /\ s_second = NoResult

\* sanitize_path(base_dir, path_str)
SanitizeFirst ==
    /\ s_pc = "start"
    /\ s_first' = sanitize_path(s_fs, s_base, s_path)
    /\ s_pc' = "once"
    /\ UNCHANGED <<s_fs, s_base, s_path, s_second>>

\* sanitize_path(base_dir, r relative to base_dir) for an accepted r, and
\* sanitize_path(base_dir, path_str) once more for a rejected path_str
SanitizeAgain ==
    /\ s_pc = "once"
    /\ s_second' =
          IF s_first.has_value
            THEN sanitize_path(s_fs, s_base,
                     generic_string(lexically_relative(s_first.value, s_base)))
            ELSE sanitize_path(s_fs, s_base, s_path)
    /\ s_pc' = "twice"
    /\ UNCHANGED <<s_fs, s_base, s_path, s_first>>

(***************************************************************************)
(* parse_octal and validate_checksum on their own.  A header is its        *)
(* checksum field (characters) and the values of its other bytes.          *)
(***************************************************************************)
OctalDigits == {"0", "1", "2", "3", "4", "5", "6", "7"}

\* the value of a byte written as a character
ByteValue(c) ==
    IF c = "NUL" THEN 0
    ELSE IF c = " " THEN 32
    ELSE IF c = "0" THEN 48
    ELSE IF c = "1" THEN 49
    ELSE IF c = "2" THEN 50
    ELSE IF c = "3" THEN 51
    ELSE IF c = "4" THEN 52
    ELSE IF c = "5" THEN 53
    ELSE IF c = "6" THEN 54
    ELSE IF c = "7" THEN 55
    ELSE IF c = "8" THEN 56
    ELSE 120

RECURSIVE from_chars(_, _)
\* std::from_chars(begin, actual_end, value, 8): the leading octal digits of
\* the range are converted, whatever follows them; ok is FALSE when the
\* range does not start with a digit
from_chars(range, acc) ==
    IF range = <<>> \/ range[1] \notin OctalDigits
      THEN acc
      ELSE from_chars(Tail(range),
                      [ok |-> TRUE, value |-> acc.value * 8 + (ByteValue(range[1]) - 48)])

\* index of the first character of data at or after from that is blank
\* (' ' or NUL) when blank is TRUE, that is not when blank is FALSE;
\* Len(data) + 1 if there is none
FirstFrom(data, from, blank) ==
    LET stop(i) == (data[i] \in {" ", "NUL"}) = blank IN
    IF \E i \in from..Len(data) : stop(i)
      THEN CHOOSE i \in from..Len(data) :
             stop(i) /\ \A j \in from..(i - 1) : ~stop(j)
      ELSE Len(data) + 1

parse_octal(data) ==
    LET begin == FirstFrom(data, 1, FALSE)
        actual_end == FirstFrom(data, begin, TRUE)
        res == from_chars(SubSeq(data, begin, actual_end - 1),
                          [ok |-> FALSE, value |-> 0])
    IN IF res.ok THEN res.value ELSE 0

RECURSIVE SumSeq(_)
SumSeq(q) == IF q = <<>> THEN 0 ELSE q[1] + SumSeq(Tail(q))

\* the byte sum with the checksum bytes counted as ' '
calculated(rest) == TAR_CHECKSUM_LENGTH * 32 + SumSeq(rest)

validate_checksum(field, rest) == calculated(rest) = parse_octal(field)

FieldChars == {"NUL", " ", "0", "1", "2", "8", "x"}
RestValues == {0, 1, 8, 64}

InitSum ==
    /\ k_pc = "start"
    /\ k_field \in [1..TAR_CHECKSUM_LENGTH -> FieldChars]
    /\ k_rest \in [1..RestLen -> RestValues]
    /\ k_valid = FALSE

\* validate_checksum(header)
ValidateChecksum ==
    /\ k_pc = "start"
    /\ k_valid' = validate_checksum(k_field, k_rest)
    /\ k_pc' = "done"
    /\ UNCHANGED <<k_field, k_rest>>

(***************************************************************************)
(* SpeedTest::run (http_client.cpp).  The output of the CLI is a sequence  *)
(* of lines, each of one kind:                                             *)
(*   "blank"        only white space                                       *)
(*   "limit_raw"    the text holds "Limit reached" or "Too many requests"  *)
(*   "json_error"   JSON object with an "error" member, or JSON error log  *)
(*                  with a message other than "Limit reached"              *)
(*   "result"       JSON of type "result" whose download and upload both   *)
(*                  carry a bandwidth                                      *)
(*   "result_no_bw" JSON of type "result" with download and upload, one    *)
(*                  of them without a bandwidth                            *)
(*   "result_bad"   JSON of type "result" without download or upload       *)
(*   "log_limit"    JSON error log whose decoded message holds             *)
(*                  "Limit reached" while the raw text does not (escapes)  *)
(*   "text"         anything else: not JSON, a log of another level, JSON  *)
(*                  of another type                                        *)
(***************************************************************************)
LineKinds == {"blank", "limit_raw", "json_error", "result", "result_no_bw",
              "result_bad", "log_limit", "text"}

RECURSIVE LinesUpTo(_)
LinesUpTo(n) ==
    IF n = 0 THEN { <<>> }
    ELSE LET shorter == LinesUpTo(n - 1)
         IN shorter \cup { Append(x, k) : x \in shorter, k \in LineKinds }

\* SpeedEntryResult entry for SERVERS[node].  speeds stands for download_mbps
\* and upload_mbps: "unset" (the 0.0 of the struct), "bandwidth" (both
\* computed from a bandwidth of the line), "default" (one of them computed from
\* the 0.0 that value("bandwidth", 0.0) gives for a missing member)
NewEntry(node) ==
    [server |-> node, success |-> FALSE, error |-> "", rate_limited |-> FALSE,
     speeds |-> "unset"]

\* the locals of the line loop: entry, found_result, last_raw_output, and
\* result.rate_limited
ParseStart(node, run_rl) ==
    [entry |-> NewEntry(node), found_result |-> FALSE, last_raw_output |-> "",
     rate_limited |-> run_rl]

RateLimited(acc) ==
    [acc EXCEPT !.entry.rate_limited = TRUE,
                !.entry.error = "Rate Limit Reached",
                !.rate_limited = TRUE]

RECURSIVE ParseLines(_, _)
\* lines 498-574: the loop over the lines of the output
ParseLines(lines, acc) ==
    IF lines = <<>> THEN acc
    ELSE
      LET line == lines[1]
          rest == Tail(lines)
          seen == [acc EXCEPT !.last_raw_output = line]
      IN
      IF line = "blank" THEN ParseLines(rest, acc)
      ELSE IF line = "limit_raw" THEN RateLimited(seen)
      ELSE IF line = "json_error"
        THEN ParseLines(rest, [seen EXCEPT !.entry.error = "CLI error"])
      ELSE IF line = "result_bad"
        THEN ParseLines(rest, [seen EXCEPT !.entry.error = "Malformed result (missing speed data)"])
      ELSE IF line \in {"result", "result_no_bw"}
        THEN [seen EXCEPT !.entry.speeds =
                              IF line = "result" THEN "bandwidth" ELSE "default",
                          !.entry.success = TRUE, !.found_result = TRUE]
      ELSE IF line = "log_limit" THEN ParseLines(rest, RateLimited(seen))
      ELSE ParseLines(rest, seen)

\* lines 576-585: the error of an entry that got none from the lines
AfterLines(acc) ==
    IF /\ ~acc.found_result /\ ~acc.entry.success /\ acc.entry.error = ""
       /\ ~acc.rate_limited
      THEN [acc EXCEPT !.entry.error =
               IF acc.last_raw_output # "" THEN "CLI Error: last line"
               ELSE "No Result Data (Empty Output)"]
      ELSE acc

\* lines 587-590: if (entry.rate_limited) { push_back; return result; }
ReturnsAfterNever(entry) == FALSE
ReturnsAfter(entry) == entry.rate_limited

InitSpeed ==
    /\ r_pc = "cert"
    /\ r_node = 1
    /\ r_entries = <<>>
    /\ r_rate_limited = FALSE
    /\ r_spawned = <<>>
    /\ g_interrupted \in BOOLEAN

\* lines 449-460: ScopedCertFile::create
SpeedCert ==
    /\ r_pc = "cert"
    /\ \E cert_expected \in BOOLEAN :
         IF cert_expected
           THEN r_pc' = "loop" /\ UNCHANGED r_entries
           ELSE /\ r_entries' = << [NewEntry(0) EXCEPT !.error = "Certificate Error"] >>
                /\ r_pc' = "done"
    /\ UNCHANGED <<r_node, r_rate_limited, r_spawned, g_interrupted>>

\* lines 463-465 and 597: the loop ends, by exhaustion or by g_interrupted
SpeedLoopEnd ==
    /\ r_pc = "loop"
    /\ r_node > NumServers \/ g_interrupted
    /\ r_pc' = "done"
    /\ UNCHANGED <<r_node, r_entries, r_rate_limited, r_spawned, g_interrupted>>

\* lines 467-596: one iteration: ShellPipe, read_all, the lines, push_back.
\* before: a signal is handled before the check of line 487, after: later
\* in the iteration
SpeedServer ==
    /\ r_pc = "loop"
    /\ r_node <= NumServers
    /\ ~g_interrupted
    /\ \E read_all \in {"throws", "returns"}, output \in LinesUpTo(MaxLines),
          before \in BOOLEAN, after \in BOOLEAN :
         LET acc == AfterLines(ParseLines(output, ParseStart(r_node, r_rate_limited)))
             thrown == [NewEntry(r_node) EXCEPT !.error = "exception"]
             interrupted == [NewEntry(r_node) EXCEPT !.error = "Interrupted by user"]
         IN
         /\ read_all = "throws" => output = <<>>
         /\ r_spawned' = Append(r_spawned, r_node)
         /\ g_interrupted' = (before \/ after)
         /\ IF read_all = "throws"
              THEN /\ r_entries' = Append(r_entries, thrown)
                   /\ r_node' = r_node + 1
                   /\ UNCHANGED <<r_pc, r_rate_limited>>
            ELSE IF before
              THEN /\ r_entries' = Append(r_entries, interrupted)
                   /\ r_pc' = "done"
                   /\ UNCHANGED <<r_node, r_rate_limited>>
            ELSE /\ r_entries' = Append(r_entries, acc.entry)
                 /\ r_rate_limited' = acc.rate_limited
                 /\ IF ReturnsAfter(acc.entry)
                      THEN r_pc' = "done" /\ UNCHANGED r_node
                      ELSE r_node' = r_node + 1 /\ UNCHANGED r_pc

\* SIGINT / SIGTERM between two iterations
SpeedInterrupt ==
    /\ r_pc = "loop"
    /\ ~g_interrupted
    /\ g_interrupted' = TRUE
    /\ UNCHANGED speedVars

HeaderCheckError ==
    IF file_count > TGZ_MAX_FILES THEN "ArchiveTooLarge"
    ELSE IF ~t_hdr.checksum_ok THEN "InvalidChecksum"
    ELSE IF ~t_hdr.name_ok \/ ~t_hdr.prefix_ok THEN "InvalidHeader"
    ELSE "none"

\* C2 as stated: on a header whose typeflag is '1' or '2' extract returns
\* SymlinkDetected
C2_LinkHeaderReturnsSymlinkDetected ==
    (t_pc = "done" /\ t_hdr.type_flag \in {"1", "2"}) => t_result = "SymlinkDetected"

\* C2: extract never creates a symbolic or hard link: no header with
\* typeflag '1' or '2' gets past the type check, and no path extract created
\* is a link.  On the first header with typeflag '1' or '2' extract returns
\* at once, creating nothing and writing nothing for that entry, with
\* ArchiveTooLarge when the header is beyond the file limit, else
\* InvalidChecksum when its checksum is wrong, else InvalidHeader when its
\* name or prefix is unsafe, else SymlinkDetected.  For an archive whose only
\* entry has typeflag '2' nothing at all is created.
C2_NoLinkCreated ==
    /\ ~t_link_accepted
    /\ \A p \in t_created : Kind(t_fs, p) # "link"
    /\ t_hdr.type_flag \in {"1", "2"} =>
          /\ t_pc = "done"
          /\ t_entry_created = {}
          /\ t_entry_written = 0
          /\ t_result = IF HeaderCheckError # "none" THEN HeaderCheckError
                        ELSE "SymlinkDetected"
    /\ (t_hdr.type_flag = "2" /\ file_count = 1) => t_created = {}

\* a link header met after an entry extract created something for
C2_Witness ==
    /\ t_pc = "done"
    /\ t_hdr.type_flag \in {"1", "2"}
    /\ t_result = "SymlinkDetected"
    /\ file_count = 2
    /\ t_created # {}

\* C34: for each header extract applies its checks in this order and
\* returns the error of the first that fails: entry count above
\* TGZ_MAX_FILES (ArchiveTooLarge), checksum (InvalidChecksum), name or
\* prefix not a safe string (InvalidHeader), link typeflag
\* (SymlinkDetected), size above TGZ_MAX_FILE_SIZE (FileTooLarge), total
\* above TGZ_MAX_TOTAL_SIZE (ArchiveTooLarge), sanitize_path
\* (PathTraversalDetected); the step of extract that handles such a header
\* changes nothing in the filesystem.
C34_ChecksInOrder ==
    [][(t_pc = "loop" /\ t_pc' = "done" /\ t_hdr' # NoHeader) =>
         LET h == t_hdr'
             first ==
               IF file_count' > TGZ_MAX_FILES THEN "ArchiveTooLarge"
               ELSE IF ~h.checksum_ok THEN "InvalidChecksum"
               ELSE IF ~h.name_ok \/ ~h.prefix_ok THEN "InvalidHeader"
               ELSE IF h.type_flag \in {"1", "2"} THEN "SymlinkDetected"
               ELSE IF h.file_size > TGZ_MAX_FILE_SIZE THEN "FileTooLarge"
               ELSE IF h.file_size + total_extracted_size > TGZ_MAX_TOTAL_SIZE
                 THEN "ArchiveTooLarge"
               ELSE IF ~sanitize_path(t_fs, dest_dir, h.full_path).has_value
                 THEN "PathTraversalDetected"
               ELSE "none"
         IN first # "none" =>
              /\ t_result' = first
              /\ t_fs' = t_fs
              /\ t_created' = t_created
              /\ t_file' = NoFile]_vars

\* C34 witness: after an entry that created something, a symbolic-link
\* entry named "../o" was answered with SymlinkDetected
C34_Witness ==
    /\ t_pc = "done"
    /\ t_result = "SymlinkDetected"
    /\ t_hdr.type_flag = "2"
    /\ t_hdr.full_path = <<".", ".", "/", "o">>
    /\ file_count = 2
    /\ t_created # {}

\* C35: extract stops with Ok at an all-zero header block and at a read of
\* zero bytes where a header is due, and after it has stopped nothing more
\* is decoded, counted or created; a header read of 1 to
\* TAR_BLOCK_SIZE - 1 bytes gives InvalidHeader; an entry that is neither a
\* regular file nor a directory nor a link (it opens no file and adds its
\* size to the total) has its payload skipped rounded up to whole blocks
\* and changes nothing in the filesystem.
C35_EndOfArchiveAndOtherEntries ==
    [][/\ (t_pc = "loop" /\ t_pc' = "done" /\ t_hdr' = NoHeader) =>
            LET bytes_read == t_pos' - t_pos IN
            /\ bytes_read \in 0..TAR_BLOCK_SIZE
            /\ bytes_read \in 1..(TAR_BLOCK_SIZE - 1) => t_result' = "InvalidHeader"
            /\ bytes_read = TAR_BLOCK_SIZE => t_result' = "Ok"
            /\ bytes_read = 0 => t_result' \in {"Ok", "ReadFailed"}
            /\ UNCHANGED <<t_fs, t_created, file_count, total_extracted_size, t_opened>>
       /\ t_pc = "done" =>
            UNCHANGED <<t_pc, t_result, t_fs, t_created, file_count,
                        total_extracted_size, t_opened, t_pos>>
       /\ (/\ t_pc = "loop" /\ t_pc' = "loop"
           /\ t_opened' = t_opened
           /\ total_extracted_size' > total_extracted_size) =>
            LET file_size == total_extracted_size' - total_extracted_size IN
            /\ t_pos' = t_pos + TAR_BLOCK_SIZE
                         + ((file_size + TAR_BLOCK_SIZE - 1) \div TAR_BLOCK_SIZE)
                           * TAR_BLOCK_SIZE
            /\ UNCHANGED <<t_fs, t_created>>
            /\ file_count' = file_count + 1]_vars

\* C35 witness: an entry of another type with a payload of one unit was
\* skipped, then an all-zero block ended the extraction with Ok
C35_Witness ==
    /\ t_pc = "done"
    /\ t_result = "Ok"
    /\ file_count = 1
    /\ total_extracted_size = 1
    /\ t_opened = 0
    /\ t_created = {}
    /\ t_pos = 3 * TAR_BLOCK_SIZE

\* C36: extract polls the interrupt flag at every block boundary: once the
\* flag is set while extract runs, its next step is to return, without
\* reading another header and without touching the filesystem.
C36_InterruptStopsExtract ==
    [][(g_interrupted /\ t_pc = "loop") =>
          /\ t_pc' = "done"
          /\ t_result' \notin {"none", "Ok"}
          /\ UNCHANGED <<t_fs, t_created, file_count, total_extracted_size, t_pos>>]_vars

\* C3 as stated: an entry whose size would push the byte total above the
\* limit is rejected with ArchiveTooLarge
C3_OverTotalReturnsArchiveTooLarge ==
    (/\ t_pc = "done"
     /\ t_hdr.type_flag \notin {"none", "1", "2"}
     /\ HeaderCheckError = "none"
     /\ t_hdr.file_size + total_extracted_size > TGZ_MAX_TOTAL_SIZE)
    => t_result = "ArchiveTooLarge"

\* C3: each time a header is about to be read the running total of
\* extracted bytes is at most TGZ_MAX_TOTAL_SIZE and the number of headers
\* seen is at most TGZ_MAX_FILES; an entry whose size would push the total
\* above TGZ_MAX_TOTAL_SIZE is rejected before anything is created or
\* written for it, with the error of the first failing check: file limit
\* (ArchiveTooLarge), checksum (InvalidChecksum), name or prefix
\* (InvalidHeader), link typeflag (SymlinkDetected), size above
\* TGZ_MAX_FILE_SIZE (FileTooLarge), and only then ArchiveTooLarge
C3_LimitsAtHeaderBoundary ==
    /\ t_pc = "loop" =>
          /\ total_extracted_size <= TGZ_MAX_TOTAL_SIZE
          /\ file_count <= TGZ_MAX_FILES
    /\ (/\ t_hdr.type_flag # "none"
        /\ t_hdr.file_size + total_extracted_size > TGZ_MAX_TOTAL_SIZE) =>
          /\ t_pc = "done"
          /\ t_entry_created = {}
          /\ t_entry_written = 0
          /\ t_result = IF HeaderCheckError # "none" THEN HeaderCheckError
                        ELSE IF t_hdr.type_flag \in {"1", "2"} THEN "SymlinkDetected"
                        ELSE IF t_hdr.file_size > TGZ_MAX_FILE_SIZE THEN "FileTooLarge"
                        ELSE "ArchiveTooLarge"

\* an entry of allowed size rejected because of the bytes extracted before it
C3_Witness ==
    /\ t_pc = "done"
    /\ t_result = "ArchiveTooLarge"
    /\ file_count <= TGZ_MAX_FILES
    /\ total_extracted_size > 0
    /\ t_hdr.file_size <= TGZ_MAX_FILE_SIZE
    /\ t_hdr.file_size + total_extracted_size > TGZ_MAX_TOTAL_SIZE

\* C11: sanitize_path is idempotent: when sanitize_path(b, p) accepts and
\* returns r, sanitize_path(b, r made relative to b) accepts and returns the
\* same r; when p is rejected, applying sanitize_path again does not accept
C11_SanitizeIdempotent ==
    s_pc = "twice" =>
        IF s_first.has_value THEN s_second = s_first
                             ELSE ~s_second.has_value

\* an accepted path of two components, sanitized a second time
C11_Witness ==
    /\ s_pc = "twice"
    /\ s_first.has_value
    /\ s_second.has_value
    /\ Len(Components(s_path)) = 2

\* C26 (as claimed): the decision and the returned path of sanitize_path are
\* a function of base_dir and the candidate alone: in any other state of the
\* filesystem (with or without a symbolic link or a directory at a component
\* under base_dir) the same two arguments give the same result
C26_ResultIndependentOfFilesystem ==
    s_pc = "once" =>
        \A f \in {g \in InitFsSet : WellFormedFs(g)} :
            sanitize_path(f, s_base, s_path) = s_first

\* C27 (as claimed): sanitize_path rejects a candidate if and only if one of
\* the eight listed rules holds (empty or longer than 4096; a byte >= 0x80 or
\* a control byte other than TAB; a forbidden substring; a forbidden first
\* character; a shell metacharacter; more than 20 components; an unsafe
\* component; the lexical relative-to-base of the join starts with ".."),
\* and on accept it returns the join of base_dir with the components of the
\* candidate; 20 safe components are accepted, 21 are rejected
C27_RejectsIffListedRule ==
    s_pc = "once" =>
        LET p == s_path
            comps == Components(p)
            rule1 == p = <<>> \/ Len(p) > 4096
            rule2 == \E i \in 1..Len(p) : p[i] \in {"CTRL", "HIGH"}
            rule3 == \/ Contains(p, <<".", ".", "/">>) \/ Contains(p, <<".", ".", "\\">>)
                     \/ Contains(p, <<"/", "/">>) \/ Contains(p, <<"\\", "\\">>)
                     \/ Contains(p, <<":", "\\">>)
            rule4 == p # <<>> /\ p[1] \in {"/", "\\", "~"}
            rule5 == \E i \in 1..Len(p) : p[i] \in {";", "&", "$", "BACKTICK", "|"}
            rule6 == Len(comps) > 20
            rule7 == \E i \in 1..Len(comps) : ~is_safe_filename(comps[i])
            rule8 == StartsWith(comps[1], <<".", ".">>)
        IN
        /\ ~s_first.has_value <=>
              (rule1 \/ rule2 \/ rule3 \/ rule4 \/ rule5 \/ rule6 \/ rule7 \/ rule8)
        /\ s_first.has_value => s_first.value = s_base \o comps
        /\ p = DeepPath(20) => s_first.has_value
        /\ p = DeepPath(21) => ~s_first.has_value

\* the checksum field holds an octal number: after leading spaces and NULs,
\* the characters up to the first NUL or space are octal digits, at least one
HoldsOctalNumber(field) ==
    \E b \in 1..Len(field), e \in 1..Len(field) :
        /\ b <= e
        /\ \A i \in 1..(b - 1) : field[i] \in {" ", "NUL"}
        /\ \A i \in b..e : field[i] \in OctalDigits
        /\ e < Len(field) => field[e + 1] \in {" ", "NUL"}

\* C12: validate_checksum accepts a header if and only if the octal number
\* stored in its checksum field equals the sum of its bytes with the
\* checksum bytes counted as spaces
C12_AcceptsIffStoredOctalEqualsSum ==
    k_pc = "done" =>
        (k_valid <=> (/\ HoldsOctalNumber(k_field)
                      /\ parse_octal(k_field) = calculated(k_rest)))

\* C13: extracting the archive { directory "a/", file "a/b" } into an empty
\* directory returns Ok: extract does not stop at the valid first header, a
\* directory entry named "a/", with an error
C13_DirEntryWithSlashAccepted ==
    ~(/\ t_pc = "done"
      /\ file_count = 1
      /\ t_hdr.type_flag = "5"
      /\ t_hdr.full_path = <<"a", "/">>
      /\ t_hdr.file_size = 0
      /\ HeaderCheckError = "none"
      /\ Kind(t_fs, dest_dir) = "dir"
      /\ ~HasChildren(t_fs, dest_dir)
      /\ t_result # "Ok")

\* C14: a regular-file header that passes the other checks is accepted with
\* a size of exactly TGZ_MAX_FILE_SIZE (FileTooLarge is returned only for a
\* larger size) and rejected with FileTooLarge for TGZ_MAX_FILE_SIZE + 1,
\* before the file is created and before any payload is read
C14_FileSizeBoundary ==
    /\ t_result = "FileTooLarge" => t_hdr.file_size > TGZ_MAX_FILE_SIZE
    /\ (/\ t_pc = "done"
        /\ t_hdr.type_flag \in {"0", "NUL"}
        /\ HeaderCheckError = "none"
        /\ t_hdr.file_size = TGZ_MAX_FILE_SIZE + 1) =>
          /\ t_result = "FileTooLarge"
          /\ t_entry_created = {}
          /\ t_entry_written = 0
          /\ t_file = NoFile
          /\ file_count = 1 => (t_pos = TAR_BLOCK_SIZE /\ t_created = {})

\* a first entry of exactly TGZ_MAX_FILE_SIZE bytes has been extracted
C14_Witness ==
    /\ t_pc = "loop"
    /\ file_count = 1
    /\ t_opened = 1
    /\ total_extracted_size = TGZ_MAX_FILE_SIZE

\* C15: extract returns ArchiveTooLarge when it reads header number
\* TGZ_MAX_FILES + 1; at most TGZ_MAX_FILES files have been created by then
\* and nothing is created for that entry
C15_FileCountLimit ==
    /\ t_opened <= TGZ_MAX_FILES
    /\ t_opened <= file_count
    /\ file_count > TGZ_MAX_FILES =>
          /\ file_count = TGZ_MAX_FILES + 1
          /\ t_pc = "done"
          /\ t_result = "ArchiveTooLarge"
          /\ t_entry_created = {}
          /\ t_entry_written = 0
          /\ t_file = NoFile

\* TGZ_MAX_FILES empty files were created and one more header was read
C15_Witness ==
    /\ t_result = "ArchiveTooLarge"
    /\ file_count = TGZ_MAX_FILES + 1
    /\ t_opened = TGZ_MAX_FILES
    /\ total_extracted_size = 0

\* C16: a regular-file entry of size s moves the stream from its header to
\* the next header by the header block, s payload bytes and
\* (TAR_BLOCK_SIZE - s mod TAR_BLOCK_SIZE) mod TAR_BLOCK_SIZE padding bytes,
\* which leaves the next header on a block boundary
C16_PayloadThenPadding ==
    [][(t_pc = "loop" /\ t_pc' = "loop" /\ t_opened' = t_opened + 1) =>
          LET s == total_extracted_size' - total_extracted_size IN
          /\ t_pos' = t_pos + TAR_BLOCK_SIZE + s
                         + ((TAR_BLOCK_SIZE - (s % TAR_BLOCK_SIZE)) % TAR_BLOCK_SIZE)
          /\ t_pos' % TAR_BLOCK_SIZE = 0]_vars

\* a first file one byte longer than a multiple of the block size has been
\* extracted and TAR_BLOCK_SIZE - 1 padding bytes were skipped
C16_Witness ==
    /\ t_pc = "loop"
    /\ file_count = 1
    /\ t_opened = 1
    /\ total_extracted_size % TAR_BLOCK_SIZE = 1
    /\ t_pos = TAR_BLOCK_SIZE + total_extracted_size + (TAR_BLOCK_SIZE - 1)

\* C19 as stated: when extract fails, the files and directories completed by
\* earlier entries are left in place
C19_EarlierEntriesLeftInPlace ==
    t_pc = "done" =>
        \A p \in t_created \ t_entry_created : Kind(t_fs, p) # "absent"

\* C19: a file that was opened and not committed when extract failed
\* (payload read, write or padding seek failure) is removed before extract
\* returns; what earlier entries created is left in place, except for an
\* earlier file or empty directory at the path of the failing entry itself,
\* which that entry removed before opening its file; extract returns at the
\* first error
C19_AbandonedFileRemoved ==
    /\ t_file.state = "abandoned" =>
          /\ t_pc = "done"
          /\ t_result \in {"ReadFailed", "WriteFileFailed"}
          /\ Kind(t_fs, t_file.path) = "absent"
    /\ \A p \in t_created \ t_entry_created :
          p # t_file.path => Kind(t_fs, p) # "absent"
    /\ t_result # "none" => t_pc = "done"

\* the second entry's file was abandoned after part of its payload was written
C19_Witness ==
    /\ t_file.state = "abandoned"
    /\ file_count = 2
    /\ t_opened = 2
    /\ t_entry_written > 0
    /\ \E p \in t_created : Kind(t_fs, p) = "file"

C37_SuccessNeedsBothBandwidths ==
    \A i \in 1..Len(r_entries) :
        r_entries[i].success => r_entries[i].speeds = "bandwidth"

\* C40: every entry that SpeedTest::run records is either successful with
\* an empty error text and rate_limited = false, or not successful with a
\* non-empty error text, whatever lines the server printed and whatever
\* exception the child pipe raised
C40_EntrySuccessXorError ==
    \A i \in 1..Len(r_entries) :
        LET e == r_entries[i] IN
        \/ e.success /\ e.error = "" /\ ~e.rate_limited
        \/ ~e.success /\ e.error # ""

\* C18 as stated: if the child is terminated by a signal, read_all fails
\* with the message that names the signal
C18_SignaledChildAlwaysNamed ==
    (p_pc = "done" /\ child = "reaped" /\ WIFSIGNALED(c_status)) =>
        p_result = describe_signal(c_status)

\* C18: when read_all gets to its final waitpid (end of the output or the
\* output cap, no timeout and no cancellation seen before) and the child was
\* terminated by a signal, read_all fails with the message that names the
\* signal ("Segmentation fault (SIGSEGV)" for SIGSEGV), whatever was captured
\* and whatever raise_on_error is, and the child has been reaped and pid_
\* is -1 by then; when the deadline or a cancellation comes first, read_all
\* fails with the timeout or the interruption error instead
C18_SignaledChildNamed ==
    /\ p_result \in {describe_signal(g) : g \in {"INT", "TERM", "KILL", "PIPE", "SEGV", "USR1"}} =>
          /\ c_status \in {"INT", "TERM", "KILL", "PIPE", "SEGV", "USR1"}
          /\ p_result = describe_signal(c_status)
          /\ c_status = "SEGV" => p_result = "Segmentation fault (SIGSEGV)"
          /\ child = "reaped"
          /\ pid_ = -1
    /\ (/\ p_pc = "done"
        /\ child = "reaped"
        /\ c_status \in {"INT", "TERM", "KILL", "PIPE", "SEGV", "USR1"}
        /\ p_result \notin {"Child process timed out while reading output",
                            "Operation interrupted by user"}) =>
          p_result = describe_signal(c_status)

\* a child that wrote output and then crashed, read with raise_on_error off
C18_Witness ==
    /\ p_pc = "done"
    /\ p_result = "Segmentation fault (SIGSEGV)"
    /\ total_read > 0
    /\ ~raise_on_error
    /\ child = "reaped"

\* C23 (as claimed): when read_all fails with the timed-out error it has sent
\* SIGTERM first, SIGKILL after it only to a child that was still alive, the
\* child has been reaped, pid_ is -1 and no output is handed to the caller
C23_TimeoutTerminatesAndReaps ==
    (p_pc = "done" /\ p_result = "Child process timed out while reading output") =>
        /\ p_sent \in {<<"TERM">>, <<"TERM", "KILL">>}
        /\ p_sent = <<"TERM", "KILL">> => "KILL" \in c_pending \/ c_status # "none"
        /\ pid_ = -1
        /\ ~read_fd_open
        /\ child = "reaped"

\* C24: when read_all gets to its final waitpid and the child exited with
\* code N: with N # 0 and (no output captured or raise_on_error) it fails with
\* "Child exited with code N", followed by the output when there is some;
\* with N # 0, output captured and raise_on_error off it returns the output;
\* with N = 0 it returns the output; in all three cases the child has been
\* reaped and pid_ is -1.  The exit-code error is thrown in no other case.
C24_ExitCodeDecidesResult ==
    /\ (/\ p_pc = "done"
        /\ child = "reaped"
        /\ c_status \in {"exit0", "exit1"}
        /\ p_result \notin {"Child process timed out while reading output",
                            "Operation interrupted by user"}) =>
          /\ pid_ = -1
          /\ p_result =
                (IF c_status = "exit1" /\ (output_empty \/ raise_on_error)
                   THEN (IF output_empty
                           THEN "Child exited with code 1"
                           ELSE "Child exited with code 1, Output: output")
                   ELSE "output")
    /\ p_result \in {"output", "Child exited with code 1",
                      "Child exited with code 1, Output: output"} =>
          /\ child = "reaped"
          /\ pid_ = -1
          /\ c_status \in {"exit0", "exit1"}

\* C24 witness: the child wrote output and exited with a code other than 0,
\* raise_on_error was off, and read_all returned the output
C24_Witness ==
    /\ p_pc = "done"
    /\ c_status = "exit1"
    /\ total_read > 0
    /\ ~raise_on_error
    /\ p_result = "output"
    /\ child = "reaped" /\ pid_ = -1

\* C25 (as claimed): once read_all has stopped at the output cap, and no
\* cancellation comes, it hands the caller the bytes accepted so far followed
\* by the truncation notice, whether the child then keeps writing or exits;
\* the captured payload never exceeds the cap
C25_TruncatedOutputReturned ==
    /\ total_read <= PIPE_MAX_OUTPUT_BYTES
    /\ (/\ p_pc = "done"
        /\ truncated
        /\ ~CancelSeen
        /\ c_status \in {"exit0", "PIPE"}) => p_result = "output"

\* C32: on every path of read_all that waits on the child (EOF,
\* cancellation, timeout, output cap) the read end of the pipe is closed
\* before the first wait: whenever read_all is at a waitpid, read_fd_ is
\* closed.
C32_ReadEndClosedBeforeWait ==
    p_pc \in {"to_nohang", "to_wait", "c_nohang", "c_wait", "wait"} => ~read_fd_open

\* C38: read_all called with a finite timeout eventually returns or
\* throws, whatever the child does: also when the child closes its stdout
\* and stderr and keeps running, and when it neither writes nor exits after
\* the output cap was hit
C38_ReadAllEventuallyEnds == (p_pc = "loop") ~> (p_pc = "done")

\* C39: over the constructor, read_all and the destructor of a ShellPipe,
\* kill() is issued only to the pid of a child that no wait has reaped (the
\* child runs or is a zombie), never after a wait on that pid succeeded, and
\* a wait on the pid succeeds at most once: a reaped child stays reaped, and
\* the wait that reaps it is made on the pid the ShellPipe holds
C39_ReapedNeverSignalled ==
    [][/\ p_sent' # p_sent => pid_ = ChildPid /\ child \in {"running", "zombie"}
       /\ child = "reaped" => child' = "reaped" /\ p_sent' = p_sent
       /\ (child # "reaped" /\ child' = "reaped") =>
              child = "zombie" /\ pid_ = ChildPid]_vars

\* a cancelled read_all sent SIGTERM and SIGKILL, then reaped the child; the
\* destructor that followed sent nothing
C39_Witness ==
    /\ p_pc = "destroyed"
    /\ child = "reaped"
    /\ pid_ = -1
    /\ p_result = "Operation interrupted by user"
    /\ p_sent = <<"TERM", "KILL">>

\* C33: ~ShellPipe on a child that has not been reaped sends SIGTERM first,
\* SIGKILL only to a child that the non-blocking checks did not reap, then
\* reaps it and sets pid_ to -1; on a child reaped before, it sends nothing.
\* Once the destructor has run the child has been reaped and pid_ is -1,
\* and a destructor that ran without a read_all before it has sent SIGTERM,
\* or SIGTERM then SIGKILL.
C33_DestructorTerminatesAndReaps ==
    p_pc = "destroyed" =>
        /\ pid_ = -1
        /\ child = "reaped"
        /\ p_result = "none" => p_sent \in {<<"TERM">>, <<"TERM", "KILL">>}

\* descriptors the ShellPipe holds open in the calling process
PipeOpenFds ==
    (IF read_fd_open THEN {"read_fd_"} ELSE {}) \cup
    (IF write_fd_open THEN {"write_fd"} ELSE {})

\* C28: after any return path of a core call, every descriptor the call
\* opened in the calling process has been closed: a ShellPipe whose
\* constructor failed (pipe or fork) or that was destroyed, with or without
\* a read_all, holds neither end of the pipe; run_io_test, returned with Ok
\* or any error, holds no file descriptor and no ring; extract, returned
\* with Ok or any error, holds neither the archive nor an output file.
\* While a call runs it holds only descriptors it opened itself.
C28_NoDescriptorLeftOpen ==
    /\ p_pc \in {"ctor_failed", "destroyed"} => PipeOpenFds = {}
    /\ p_pc \in {"idle", "done"} => PipeOpenFds \subseteq {"read_fd_"}
    /\ b_pc = "returned" => b_open = {}
    /\ t_pc = "done" => t_fds = {}
    /\ t_pc = "loop" => t_fds = {"gz"}

\* C28 witness: fork failed after the pipe had been created, and the
\* constructor left no descriptor open
C28_Witness ==
    /\ p_pc = "ctor_failed"
    /\ PipeOpenFds = {}
    /\ child = "unborn"

HeldFds == {w_fd[w] : w \in {x \in Wrappers : w_live[x] /\ w_fd[x] >= 0}}

\* C5: with every raw descriptor handed to at most one wrapper, no two live
\* wrappers hold the same descriptor; a descriptor a live wrapper holds is
\* open and was never closed; a descriptor given up by release() was never
\* closed by a wrapper; no wrapper ever closes a descriptor twice or closes
\* one that is not open; and a descriptor that no wrapper holds any more
\* (its holder was destroyed or reset) and that was not released is closed.
C5_FdClosedExactlyOnce ==
    /\ \A w1, w2 \in Wrappers :
         (w_live[w1] /\ w_live[w2] /\ w1 # w2 /\ w_fd[w1] >= 0)
             => w_fd[w1] # w_fd[w2]
    /\ \A f \in HeldFds : f \in kOpen /\ closeCnt[f] = 0
    /\ \A f \in fdReleased : f \in kOpen /\ closeCnt[f] = 0 /\ f \notin HeldFds
    /\ ~badClose
    /\ \A f \in Fds : closeCnt[f] <= 1
    /\ \A f \in Fds : (f \notin kOpen /\ closeCnt[f] = 1) => f \notin HeldFds
    /\ kOpen \subseteq (fdRaw \cup fdReleased \cup HeldFds)

\* C5 witness: one descriptor was closed by the destruction or reset of its
\* holder, another was released and a third is still held.
C5_Witness ==
    /\ \E f \in Fds : f \notin kOpen /\ closeCnt[f] = 1
    /\ fdReleased # {}
    /\ HeldFds # {}

UringActive == b_pc \in {"u_loop", "u_fill", "u_submit", "u_wait", "u_reap", "u_check"}

\* C6: in every state of a write or read phase, 0 <= submitted - completed
\* <= queue_depth and submitted <= total_blocks; the requests really in
\* flight never exceed that window, so with queue depth 1 at most one
\* request is in flight and it is the block that follows the completed ones.
C6_InFlightWindow ==
    UringActive =>
        /\ 0 <= submitted - completed
        /\ submitted - completed <= queue_depth
        /\ submitted <= total_blocks
        /\ InFlightCount <= submitted - completed
        /\ queue_depth = 1 =>
              /\ InFlightCount <= 1
              /\ \A r \in inflight : r.idx = completed
              /\ \A i \in 1..Len(sq) : sq[i].idx = completed

\* C6 witness: a read phase with a full window of two requests after a
\* completion was consumed.
C6_Witness ==
    /\ UringActive /\ ~is_write
    /\ queue_depth = 2
    /\ submitted - completed = queue_depth
    /\ InFlightCount = 2
    /\ completed >= 1

\* read requests prepared or handed to the kernel and not yet completed
ReadsInFlight == {sq[i] : i \in 1..Len(sq)} \cup inflight

\* slots of completed requests whose CQE the completion loop has not consumed
SlotsAwaitingReap == {cq[i].req.buf : i \in 1..Len(cq)}

\* C20: during the read phase of run_uring_io, however submissions and
\* completions interleave and in whatever order requests complete, no two
\* in-flight read requests use the same read-buffer slot; a slot is in the
\* free pool only when no request that has not completed (or whose completion
\* has not been consumed) holds it, and the pool holds every slot once;
\* the pool is never empty when a request is about to be submitted inside
\* the queue-depth window, so the phase never fails with the "no free read
\* buffers" logic error
C20_ReadSlotsNeverShared ==
    (UringActive /\ ~is_write) =>
        /\ \A r1, r2 \in ReadsInFlight : r1.buf = r2.buf => r1 = r2
        /\ \A r \in ReadsInFlight : r.buf \in 0..(queue_depth - 1)
        /\ \A i \in 1..Len(free_read_indices) :
              /\ free_read_indices[i] \notin {r.buf : r \in ReadsInFlight}
              /\ free_read_indices[i] \notin SlotsAwaitingReap
              /\ \A j \in 1..Len(free_read_indices) :
                    free_read_indices[i] = free_read_indices[j] => i = j
        /\ (b_pc = "u_fill" /\ MaySubmit(submitted, completed, total_blocks, queue_depth))
              => free_read_indices # <<>>
        /\ u_result # "Logic Error: No free read buffers available"

\* C20 witness: the second request completed before the first one, its slot
\* went back to the pool and was given to a third request while the first
\* request is still with the kernel
C20_Witness ==
    /\ UringActive /\ ~is_write
    /\ queue_depth = 2
    /\ completed = 1
    /\ \E r1, r2 \in inflight : r1.idx = 0 /\ r2.idx = 2 /\ r1.buf # r2.buf

\* SumLen(log): the lengths of the requests of a log, added up
RECURSIVE SumLen(_)
SumLen(log) == IF log = <<>> THEN 0 ELSE Head(log).len + SumLen(Tail(log))

\* C21: a phase of run_uring_io returns success only when every block index
\* 0..total_blocks-1 was submitted exactly once, at offset index * block_size,
\* with length block_size (the last block: the remaining bytes), and every one
\* of those requests was consumed exactly once with its full length, in
\* whatever order the completions arrived; the lengths add up to total_bytes
\* and nothing is left in flight
C21_SuccessMeansEveryBlockDone ==
    (b_pc = "ring_exit" /\ u_result = "ok") =>
        /\ Len(u_sub_log) = total_blocks
        /\ \A i \in 1..Len(u_sub_log) :
              /\ u_sub_log[i].idx = i - 1
              /\ u_sub_log[i].off = (i - 1) * IO_BLOCK_SIZE
              /\ u_sub_log[i].len =
                    (IF i = total_blocks THEN total_bytes - (i - 1) * IO_BLOCK_SIZE
                                         ELSE IO_BLOCK_SIZE)
        /\ Len(u_done_log) = total_blocks
        /\ \A i \in 1..Len(u_sub_log) :
              Cardinality({j \in 1..Len(u_done_log) :
                              /\ u_done_log[j].idx = u_sub_log[i].idx
                              /\ u_done_log[j].len = u_sub_log[i].len
                              /\ u_done_log[j].res = "full"}) = 1
        /\ SumLen(u_sub_log) = total_bytes
        /\ SumLen(u_done_log) = total_bytes
        /\ completed = total_blocks /\ submitted = total_blocks
        /\ InFlightCount = 0

\* C21 witness: a phase of three blocks with two requests in flight succeeded
\* although the second block completed before the first
C21_Witness ==
    /\ b_pc = "ring_exit" /\ u_result = "ok"
    /\ total_blocks = 3
    /\ queue_depth = 2
    /\ u_done_log[1].idx = 1

\* C22: open_benchmark_file tries the modes in the order DIRECT+DSYNC, DIRECT,
\* DSYNC, buffered; it goes on to the next mode only after an attempt that
\* failed with EINVAL; it returns the first mode that opens, with its number;
\* on any other errno it stops at once and reports failure (mode 0), without
\* trying a weaker mode; it reports failure too when all four attempts fail
C22_OpenModeFallback ==
    b_calls # <<>> =>
        LET n == Len(b_calls) IN
        /\ n <= 4
        /\ \A i \in 1..n : b_calls[i].flags = OpenFlags[i]
        /\ \A i \in 1..(n - 1) : b_calls[i].res = "EINVAL"
        /\ b_calls[n].res = "EINVAL" => n = 4
        /\ b_mode = (IF b_calls[n].res = "ok" THEN n ELSE 0)
        /\ b_mode = 0 <=> b_pc = "returned"

\* C22 witness: DIRECT+DSYNC was refused with EINVAL, DIRECT failed with
\* another errno, and the open failed although a weaker mode was left
C22_Witness ==
    /\ Len(b_calls) = 2
    /\ b_calls[1].res = "EINVAL"
    /\ b_calls[2].res = "EACCES"
    /\ b_mode = 0
    /\ b_pc = "returned"

\* run_uring_io has returned an error and io_uring_queue_exit has not run yet
UringReturnedError == b_pc = "ring_exit" /\ u_result # "ok"

\* C29: whenever run_uring_io returns an error, whatever the reason, every
\* request it submitted has completed and been consumed: completed =
\* submitted at the return and no request is in the submission queue, in
\* the kernel or unreaped in the completion queue.
C29_ErrorReturnDrained ==
    UringReturnedError => (completed = submitted /\ InFlightCount = 0)

\* the steps of run_io_test, in the order of the source (lines 352-509)
RunIoTestSteps ==
    <<"space", "open_w", "prealloc", "write", "sync", "open_r", "read", "result">>

\* C30: run_io_test takes its steps only in this order: free-space check,
\* write open, preallocation, write transfers, fdatasync, read-only reopen,
\* read transfers, result.  fdatasync is issued only after every write
\* block has completed, no read request is submitted before the write
\* phase has been synced, and a step that fails is the last step taken:
\* the call then returns an error.  The mode chosen by the write open is
\* available when the open step has succeeded.
C30_StepsInOrder ==
    /\ Len(b_steps) <= Len(RunIoTestSteps)
    /\ \A i \in 1..Len(b_steps) : b_steps[i].step = RunIoTestSteps[i]
    /\ \A i \in 1..(Len(b_steps) - 1) : b_steps[i].ok
    /\ (b_steps # <<>> /\ ~b_steps[Len(b_steps)].ok) =>
           (b_pc = "returned" /\ b_result \notin {"ok", "none"})
    /\ (b_pc = "returned" /\ b_result = "ok") => Len(b_steps) = Len(RunIoTestSteps)
    /\ (b_steps # <<>> /\ b_steps[Len(b_steps)].step = "sync") =>
           (is_write /\ completed = total_blocks /\ u_result = "ok")
    /\ (~is_write /\ b_pc # "returned" /\ (submitted > 0 \/ u_sub_log # <<>>)) =>
           (Len(b_steps) = 6 /\ b_steps[5] = Step("sync", TRUE))
    /\ (b_pc = "prealloc") => (b_steps[Len(b_steps)] = Step("open_w", TRUE) /\ b_mode \in 1..4)

\* C30 witness: a run that took every step and returned Ok
C30_Witness ==
    /\ b_pc = "returned"
    /\ b_result = "ok"
    /\ b_steps = [i \in 1..Len(RunIoTestSteps) |-> Step(RunIoTestSteps[i], TRUE)]

\* the calls progress_cb receives inside run_uring_io up to comp completions
EvenCalls(comp, label) ==
    [i \in 1..(comp \div 2) |-> ProgressCall(2 * i, total_blocks, label)]

\* C31: with a progress callback, run_uring_io calls it with (completed,
\* total, label) each time completed becomes even, in increasing order and
\* never beyond total; after a successful phase run_io_test calls it once
\* more with (total, total, label); after a failed phase that last call is
\* not made.
C31_ProgressCalls ==
    /\ \A i \in 1..Len(u_progress) :
          /\ u_progress[i].total = total_blocks
          /\ u_progress[i].completed \in 1..total_blocks
          /\ u_progress[i].label = u_progress[1].label
    /\ b_pc \in {"u_loop", "u_fill", "u_submit", "u_wait", "u_reap", "u_check",
                "ring_exit"} => u_progress = EvenCalls(completed, Phase)
    /\ (b_pc = "returned" /\ b_result = u_result /\ u_result # "ok") =>
           u_progress = EvenCalls(completed, Phase)
    /\ (b_pc = "sync" \/ (b_pc = "returned" /\ b_result = "ok")) =>
           u_progress = Append(EvenCalls(total_blocks, Phase),
                               ProgressCall(total_blocks, total_blocks, Phase))

\* C31 witness: a read phase of more than two blocks has succeeded and the
\* last call has been made
C31_Witness ==
    /\ b_pc = "returned"
    /\ b_result = "ok"
    /\ total_blocks = 3
    /\ u_progress = <<ProgressCall(2, 3, "read"), ProgressCall(3, 3, "read")>>

\* C7: once run_io_test has returned, whatever it returned, the benchmark
\* file does not exist; a following run therefore starts with no file present.
C7_FileRemovedOnEveryExit ==
    /\ (b_pc = "returned" /\ (b_result # "none" \/ b_prev # "none"))
           => benchFile = "absent"
    /\ (b_prev # "none" /\ b_pc \in {"space", "open_w"}) => benchFile = "absent"

\* C7 witness: a second run, started after a run that ended with an error
\* while the file existed, has itself returned Ok.
C7_Witness ==
    /\ b_prev = "error"
    /\ b_pc = "returned"
    /\ b_result = "ok"

\* C8 (as claimed): once the interrupt flag or the stop token is set, the
\* phase never waits for a completion while no request is in flight.
C8_CancelNeverWaitsIdle ==
    (b_pc = "u_wait" /\ (g_interrupted \/ stop_requested)) => InFlightCount > 0

\* C4 (as claimed): once read_all has ended, in whatever way, and the
\* ShellPipe has been destroyed, the child has been reaped and pid_ is -1.
C4_ReapedAfterDestruction ==
    (p_pc = "destroyed" /\ p_result # "none") => (child = "reaped" /\ pid_ = -1)

\* C9 (as claimed): read_all fails with "Operation interrupted by user" only
\* after it has reaped the child, so it never returns while the child is
\* still alive.
C9_InterruptedOnlyAfterReap ==
    (p_result = "Operation interrupted by user") => child = "reaped"

\* C10 (as claimed): a phase fails with "Operation interrupted by user" only
\* when a cancellation was requested; deadline expiry alone reports
\* "Disk Test timed out".
C10_ExpiryReportsTimedOut ==
    (u_result = "Operation interrupted by user" \/
     b_result = "Operation interrupted by user")
        => (g_interrupted \/ stop_requested)

(***************************************************************************)
(* Specifications                                                          *)
(***************************************************************************)
BenchIdle ==
    /\ b_pc = "returned"
    /\ b_result = "none"
    /\ b_prev = "none"
    /\ benchFile = "absent"
    /\ b_open = {}
    /\ b_mode = 0
    /\ b_calls = <<>>
    /\ b_steps = <<>>
    /\ size_mb = 1
    /\ io_queue_depth = 1
    /\ UringIdle
    /\ stop_requested = FALSE
    /\ expired = FALSE

\* no ShellPipe exists
PipeIdle ==
    /\ p_pc = "destroyed"
    /\ pid_ = -1
    /\ read_fd_open = FALSE
    /\ write_fd_open = FALSE
    /\ child = "reaped"
    /\ c_status = "none"
    /\ c_pending = {}
    /\ c_ignores_term = FALSE
    /\ c_stdout_open = FALSE
    /\ heir = FALSE
    /\ pipe_bytes = 0
    /\ total_read = 0
    /\ truncated = FALSE
    /\ p_expired = FALSE
    /\ p_stop = FALSE
    /\ p_stop_possible = FALSE
    /\ raise_on_error = FALSE
    /\ p_result = "none"
    /\ p_sent = <<>>

\* extract is not running
TgzIdle ==
    /\ t_pc = "done"
    /\ t_result = "none"
    /\ t_fs = MkFs({<< <<>>, "dir" >>})
    /\ t_created = {}
    /\ total_extracted_size = 0
    /\ file_count = 0
    /\ t_hdr = NoHeader
    /\ t_entry_created = {}
    /\ t_entry_written = 0
    /\ t_link_accepted = FALSE
    /\ t_pos = 0
    /\ t_opened = 0
    /\ t_file = NoFile
    /\ t_fds = {}

\* sanitize_path is not being applied
SanIdle ==
    /\ s_pc = "twice"
    /\ s_fs = MkFs({<< <<>>, "dir" >>})
    /\ s_base = dest_dir
    /\ s_path = <<>>
    /\ s_first = NoResult
    /\ s_second = NoResult

\* the subsystems that are specified on their own below the core four
\* validate_checksum is not being applied
SumIdle ==
    /\ k_pc = "done"
    /\ k_field = <<>>
    /\ k_rest = <<>>
    /\ k_valid = FALSE

\* SpeedTest::run is not running
SpeedIdle ==
    /\ r_pc = "done"
    /\ r_node = 1
    /\ r_entries = <<>>
    /\ r_rate_limited = FALSE
    /\ r_spawned = <<>>

PureIdle == SanIdle /\ SumIdle /\ SpeedIdle
pureVars == <<sanVars, sumVars, speedVars>>

FdOthers == UNCHANGED <<g_interrupted, benchVars, pipeVars, tgzVars, pureVars>>
BenchOthers == UNCHANGED <<fdVars, pipeVars, tgzVars, pureVars>>
PipeOthers == UNCHANGED <<fdVars, benchVars, tgzVars, pureVars>>
TgzOthers == UNCHANGED <<fdVars, g_interrupted, benchVars, pipeVars, pureVars>>
CoreIdle == InitFd /\ BenchIdle /\ PipeIdle /\ TgzIdle /\ g_interrupted = FALSE
coreVars == <<fdVars, g_interrupted, benchVars, pipeVars, tgzVars>>
SanOthers == UNCHANGED <<coreVars, sumVars, speedVars>>
SumOthers == UNCHANGED <<coreVars, sanVars, speedVars>>
SpeedOthers == UNCHANGED <<fdVars, benchVars, pipeVars, tgzVars, sanVars, sumVars>>

InitFdSpec == InitFd /\ BenchIdle /\ PipeIdle /\ TgzIdle /\ PureIdle /\ g_interrupted = FALSE

NextFd ==
    \/ FdOpen /\ FdOthers
    \/ \E w \in Wrappers, fd \in Fds \cup {-1, -2} : FdConstruct(w, fd) /\ FdOthers
    \/ \E w, o \in Wrappers : FdMoveConstruct(w, o) /\ FdOthers
    \/ \E w, o \in Wrappers : FdMoveAssign(w, o) /\ FdOthers
    \/ \E w \in Wrappers, fd \in Fds \cup {-1} : FdReset(w, fd) /\ FdOthers
    \/ \E w \in Wrappers : FdRelease(w) /\ FdOthers
    \/ \E w, nw \in Wrappers : FdDuplicate(w, nw) /\ FdOthers
    \/ \E w, o \in Wrappers : FdSwap(w, o) /\ FdOthers
    \/ \E w \in Wrappers : FdDestroy(w) /\ FdOthers
    \/ \E f \in Fds : FdRawClose(f) /\ FdOthers

\* FileDescriptor alone
SpecFd == InitFdSpec /\ [][NextFd]_vars

InitBenchSpec == InitBench /\ InitFd /\ PipeIdle /\ TgzIdle /\ PureIdle

NextBench ==
    \/ BenchRestart /\ BenchOthers
    \/ BenchSpace /\ BenchOthers
    \/ BenchOpenWrite /\ BenchOthers
    \/ BenchPrealloc /\ BenchOthers
    \/ BenchRingInit /\ BenchOthers
    \/ UringLoop /\ BenchOthers
    \/ UringFill /\ BenchOthers
    \/ UringSubmit /\ BenchOthers
    \/ KernelComplete /\ BenchOthers
    \/ UringWait /\ BenchOthers
    \/ UringWaitFails /\ BenchOthers
    \/ UringReap /\ BenchOthers
    \/ UringCheck /\ BenchOthers
    \/ BenchRingExit /\ BenchOthers
    \/ BenchSync /\ BenchOthers
    \/ BenchOpenRead /\ BenchOthers
    \/ BenchInterrupt /\ BenchOthers
    \/ BenchStopRequest /\ BenchOthers
    \/ BenchDeadlinePasses /\ BenchOthers

\* run_io_test with its two run_uring_io phases
SpecBench == InitBenchSpec /\ [][NextBench]_vars

InitPipeSpec == InitPipe /\ InitFd /\ BenchIdle /\ TgzIdle /\ PureIdle

NextPipe ==
    \/ PipeCtorPipe /\ PipeOthers
    \/ PipeCtorFork /\ PipeOthers
    \/ PipeReadAll /\ PipeOthers
    \/ PipeLoopCheck /\ PipeOthers
    \/ PipeTimeCheck /\ PipeOthers
    \/ PipeTimeoutNoHang /\ PipeOthers
    \/ PipeTimeoutWait /\ PipeOthers
    \/ PipePoll /\ PipeOthers
    \/ PipeRead /\ PipeOthers
    \/ PipeAfterLoop /\ PipeOthers
    \/ PipeCancelNoHang /\ PipeOthers
    \/ PipeCancelWait /\ PipeOthers
    \/ PipeWait /\ PipeOthers
    \/ PipeDtor /\ PipeOthers
    \/ PipeDtorNoHang1 /\ PipeOthers
    \/ PipeDtorNoHang2 /\ PipeOthers
    \/ PipeDtorWait /\ PipeOthers
    \/ ChildWrites /\ PipeOthers
    \/ ChildClosesStdout /\ PipeOthers
    \/ ChildExits /\ PipeOthers
    \/ ChildDies /\ PipeOthers
    \/ ChildBrokenPipe /\ PipeOthers
    \/ HeirCloses /\ PipeOthers
    \/ PipeInterrupt /\ PipeOthers
    \/ PipeStopRequest /\ PipeOthers
    \/ PipeDeadlinePasses /\ PipeOthers

\* one ShellPipe: construction, at most one read_all, destruction
SpecPipe == InitPipeSpec /\ [][NextPipe]_vars

\* the steps the thread inside read_all takes by itself: every statement
\* other than a blocking waitpid; poll comes back when its timeout ends at
\* the latest
PipeRuns ==
    \/ PipeLoopCheck
    \/ PipeTimeCheck
    \/ PipeTimeoutNoHang
    \/ PipePoll
    \/ PipeRead
    \/ PipeAfterLoop
    \/ PipeCancelNoHang

\* a blocking ::waitpid(pid_, &status, 0) is bound to come back only once
\* the child is no longer running (lines 147, 205, 212)
PipeWaitReturns ==
    /\ child # "running"
    /\ PipeTimeoutWait \/ PipeCancelWait \/ PipeWait

\* SIGKILL cannot be caught or ignored: a child it is pending for ends
KillEnds == "KILL" \in c_pending /\ ChildDies

\* one ShellPipe whose thread goes on running and whose clock goes on
\* (the timeout of read_all is finite); the child is free to write, close,
\* exit or do nothing, except that SIGKILL ends it
SpecPipeFair ==
    /\ SpecPipe
    /\ WF_vars((PipeRuns \/ PipeWaitReturns) /\ PipeOthers)
    /\ WF_vars(PipeDeadlinePasses /\ PipeOthers)
    /\ WF_vars(KillEnds /\ PipeOthers)

InitTgzSpec == InitTgz /\ InitFd /\ BenchIdle /\ PipeIdle /\ PureIdle /\ g_interrupted = FALSE

NextTgz ==
    \/ TgzOpen /\ TgzOthers
    \/ TgzNoEntry /\ TgzOthers
    \/ TgzEntry /\ TgzOthers

\* one call of TgzExtractor::extract
SpecTgz == InitTgzSpec /\ [][NextTgz]_vars

\* the core call a behaviour of SpecCore is about: the two other subsystems
\* are idle
PipeCall == BenchIdle /\ TgzIdle
BenchCall == PipeIdle /\ TgzIdle
TgzCall == PipeIdle /\ BenchIdle

\* the filesystems extract starts from in SpecCore: the destination is a
\* directory, empty or holding a symbolic link where the archive writes
CoreFsSet ==
    { MkFs({<< <<>>, "dir" >>, << <<<<"t">>>>, "dir" >>, << LinkTarget, "dir" >>,
            << dest_dir, "dir" >>} \cup a) :
        a \in { {}, {<<Append(dest_dir, <<"a">>), "link">>} } }

InitCoreSpec ==
    \/ InitPipeSpec
    \/ InitBenchSpec /\ io_queue_depth = 1
    \/ InitTgzSpec /\ t_fs \in CoreFsSet

NextCore ==
    \/ PipeCtorPipe /\ PipeOthers /\ PipeCall
    \/ PipeCtorFork /\ PipeOthers /\ PipeCall
    \/ PipeReadAll /\ PipeOthers /\ PipeCall
    \/ PipeLoopCheck /\ PipeOthers /\ PipeCall
    \/ PipeTimeCheck /\ PipeOthers /\ PipeCall
    \/ PipeTimeoutNoHang /\ PipeOthers /\ PipeCall
    \/ PipeTimeoutWait /\ PipeOthers /\ PipeCall
    \/ PipePoll /\ PipeOthers /\ PipeCall
    \/ PipeRead /\ PipeOthers /\ PipeCall
    \/ PipeAfterLoop /\ PipeOthers /\ PipeCall
    \/ PipeCancelNoHang /\ PipeOthers /\ PipeCall
    \/ PipeCancelWait /\ PipeOthers /\ PipeCall
    \/ PipeWait /\ PipeOthers /\ PipeCall
    \/ PipeDtor /\ PipeOthers /\ PipeCall
    \/ PipeDtorNoHang1 /\ PipeOthers /\ PipeCall
    \/ PipeDtorNoHang2 /\ PipeOthers /\ PipeCall
    \/ PipeDtorWait /\ PipeOthers /\ PipeCall
    \/ ChildWrites /\ PipeOthers /\ PipeCall
    \/ ChildClosesStdout /\ PipeOthers /\ PipeCall
    \/ ChildExits /\ PipeOthers /\ PipeCall
    \/ ChildDies /\ PipeOthers /\ PipeCall
    \/ ChildBrokenPipe /\ PipeOthers /\ PipeCall
    \/ HeirCloses /\ PipeOthers /\ PipeCall
    \/ PipeInterrupt /\ PipeOthers /\ PipeCall
    \/ PipeStopRequest /\ PipeOthers /\ PipeCall
    \/ PipeDeadlinePasses /\ PipeOthers /\ PipeCall
    \/ BenchRestart /\ BenchOthers /\ BenchCall
    \/ BenchSpace /\ BenchOthers /\ BenchCall
    \/ BenchOpenWrite /\ BenchOthers /\ BenchCall
    \/ BenchPrealloc /\ BenchOthers /\ BenchCall
    \/ BenchRingInit /\ BenchOthers /\ BenchCall
    \/ UringLoop /\ BenchOthers /\ BenchCall
    \/ UringFill /\ BenchOthers /\ BenchCall
    \/ UringSubmit /\ BenchOthers /\ BenchCall
    \/ KernelComplete /\ BenchOthers /\ BenchCall
    \/ UringWait /\ BenchOthers /\ BenchCall
    \/ UringWaitFails /\ BenchOthers /\ BenchCall
    \/ UringReap /\ BenchOthers /\ BenchCall
    \/ UringCheck /\ BenchOthers /\ BenchCall
    \/ BenchRingExit /\ BenchOthers /\ BenchCall
    \/ BenchSync /\ BenchOthers /\ BenchCall
    \/ BenchOpenRead /\ BenchOthers /\ BenchCall
    \/ BenchInterrupt /\ BenchOthers /\ BenchCall
    \/ BenchStopRequest /\ BenchOthers /\ BenchCall
    \/ BenchDeadlinePasses /\ BenchOthers /\ BenchCall
    \/ TgzOpen /\ TgzOthers /\ TgzCall
    \/ TgzNoEntry /\ TgzOthers /\ TgzCall
    \/ TgzEntry /\ TgzOthers /\ TgzCall
    \/ TgzInterrupt /\ UNCHANGED <<fdVars, benchVars, pipeVars, pureVars>> /\ TgzCall

\* one core call, of any of the three kinds: a ShellPipe from construction to
\* destruction, run_io_test (queue depth 1), or extract
SpecCore == InitCoreSpec /\ [][NextCore]_vars

InitSanSpec == InitSan /\ CoreIdle /\ SumIdle /\ SpeedIdle

NextSan ==
    \/ SanitizeFirst /\ SanOthers
    \/ SanitizeAgain /\ SanOthers

\* sanitize_path applied to a path and again to its own result
SpecSan == InitSanSpec /\ [][NextSan]_vars

InitSumSpec == InitSum /\ CoreIdle /\ SanIdle /\ SpeedIdle

NextSum == ValidateChecksum /\ SumOthers

\* validate_checksum applied to one header
SpecSum == InitSumSpec /\ [][NextSum]_vars

InitSpeedSpec ==
    InitSpeed /\ InitFd /\ BenchIdle /\ PipeIdle /\ TgzIdle /\ SanIdle /\ SumIdle

NextSpeed ==
    \/ SpeedCert /\ SpeedOthers
    \/ SpeedLoopEnd /\ SpeedOthers
    \/ SpeedServer /\ SpeedOthers
    \/ SpeedInterrupt /\ SpeedOthers

\* one call of SpeedTest::run
SpecSpeed == InitSpeedSpec /\ [][NextSpeed]_vars

=============================================================================
